---------------------------- MODULE Spec2Model ----------------------------
(***************************************************************************)
(* EggPricePro: the in-memory repository (MemStorage), the /api/prices     *)
(* search handler with its synthetic backfill, and the price-refresh       *)
(* scheduler.                                                              *)
(*                                                                         *)
(* Units.  Prices are integers in cents, coordinates are integers in       *)
(* 1e-4 degrees, distances are integers in 1e-3 miles, times are integers  *)
(* in milliseconds relative to the construction of the repository.         *)
(* Strings that the code parses or formats (postal codes, the radius       *)
(* parameter, stored prices and coordinates) are sequences of one-         *)
(* character strings.                                                      *)
(***************************************************************************)
EXTENDS Integers, Sequences, FiniteSets, TLC

VARIABLES
    storesData,      \* MemStorage.storesData : id -> Store
    pricesData,      \* MemStorage.pricesData : id -> Price
    storeCurrentId,  \* MemStorage.storeCurrentId
    priceCurrentId,  \* MemStorage.priceCurrentId
    now,             \* the value new Date() returns
    rng,             \* position in the stream Math.random() draws from
    NODE_ENV,        \* process.env.NODE_ENV
    req,             \* one /api/prices exchange per client slot
    cron,            \* the price-refresh scheduler
    started,         \* number of /api/prices exchanges begun so far
    lastSearch,      \* what the last exchange that backfilled showed its client
    call,            \* the last direct call of a repository method
    turn,            \* the handler that holds the thread, if one is between awaits
    switches,        \* how often a handler was suspended in favour of another
    faults,          \* how many calls of the repository have rejected
    timer            \* the interval scheduleDailyPriceUpdates returns, and the server

vars == <<storesData, pricesData, storeCurrentId, priceCurrentId, now, rng,
          NODE_ENV, req, cron, started, lastSearch, call, turn, switches, faults,
          timer>>

repo == <<storesData, pricesData, storeCurrentId, priceCurrentId>>

-----------------------------------------------------------------------------
(* Bounds of the model *)

\* client operations in one behaviour: searches begun and direct calls of the
\* repository
MaxRequests == 2
\* scheduler runs in one behaviour
MaxRuns == 1
\* latest value of the clock
MaxClock == 1
\* times a handler is suspended at an await while another one runs
MaxSwitches == 1
\* calls of the repository that reject
MaxFaults == 1
\* periods of 24 hours that pass after the routes are registered
MaxPeriods == 2
\* sample stores seeded, a prefix of the 14 of initSampleData
NumSampleStores == 3
\* days of price history seeded per store (30 in initSampleData)
HistoryDays == 1
\* positions of the random stream at which a behaviour may begin
MaxSeed == 1

-----------------------------------------------------------------------------
(* JavaScript values *)

null == <<>>
undefined == <<>>
NaN == <<>>
Some(x) == <<x>>

Digits == <<"0", "1", "2", "3", "4", "5", "6", "7", "8", "9">>
IsDigit(c) == \E i \in 1..10 : Digits[i] = c
DigitVal(c) == (CHOOSE i \in 1..10 : Digits[i] = c) - 1

Abs(n) == IF n < 0 THEN -n ELSE n
Max(a, b) == IF a >= b THEN a ELSE b

RECURSIVE Pow10(_)
Pow10(k) == IF k = 0 THEN 1 ELSE 10 * Pow10(k - 1)

\* Math.round: the nearest integer to num/den, halves towards +infinity
MathRound(num, den) == (2 * num + den) \div (2 * den)

RECURSIVE NatToString(_)
NatToString(n) ==
    IF n < 10 THEN <<Digits[n + 1]>>
    ELSE NatToString(n \div 10) \o <<Digits[(n % 10) + 1]>>

RECURSIVE DigitsToNat(_)
DigitsToNat(s) ==
    IF s = <<>> THEN 0
    ELSE 10 * DigitsToNat(SubSeq(s, 1, Len(s) - 1)) + DigitVal(s[Len(s)])

RECURSIVE PadDigits(_, _)
PadDigits(v, k) ==
    IF k = 0 THEN <<>>
    ELSE PadDigits(v \div 10, k - 1) \o <<Digits[(v % 10) + 1]>>

RECURSIVE StripZeros(_)
StripZeros(s) ==
    IF s = <<>> THEN <<>>
    ELSE IF s[Len(s)] = "0" THEN StripZeros(SubSeq(s, 1, Len(s) - 1))
    ELSE s

\* String(x) for the number x = n / 10^scale
NumberToString(n, scale) ==
    LET a == Abs(n)
        frac == StripZeros(PadDigits(a % Pow10(scale), scale))
    IN  (IF n < 0 THEN <<"-">> ELSE <<>>)
        \o NatToString(a \div Pow10(scale))
        \o (IF frac = <<>> THEN <<>> ELSE <<".">> \o frac)

\* Number(s) for a decimal numeral s, as the integer Number(s) * 10^scale
StringToNumber(s, scale) ==
    LET neg == s # <<>> /\ s[1] = "-"
        body == IF neg THEN Tail(s) ELSE s
        dots == {i \in 1..Len(body) : body[i] = "."}
        dot == IF dots = {} THEN Len(body) + 1 ELSE CHOOSE i \in dots : TRUE
        ip == SubSeq(body, 1, dot - 1)
        fp == SubSeq(body, dot + 1, Len(body))
        padded == [i \in 1..scale |-> IF i <= Len(fp) THEN fp[i] ELSE "0"]
        a == DigitsToNat(ip) * Pow10(scale) + DigitsToNat(padded)
    IN  IF neg THEN -a ELSE a

\* parseInt(s, 10): an optional sign and the longest run of digits after it;
\* NaN when there is no digit
parseInt(s) ==
    LET neg == s # <<>> /\ s[1] = "-"
        body == IF s # <<>> /\ s[1] \in {"-", "+"} THEN Tail(s) ELSE s
        stops == {i \in 1..Len(body) : ~IsDigit(body[i])}
        stop == IF stops = {} THEN Len(body) + 1
                ELSE CHOOSE i \in stops : \A j \in stops : i <= j
        ds == SubSeq(body, 1, stop - 1)
    IN  IF ds = <<>> THEN NaN
        ELSE Some(IF neg THEN -DigitsToNat(ds) ELSE DigitsToNat(ds))

toLowerCase(s) ==
    CASE s = "Brown" -> "brown"
      [] s = "White" -> "white"
      [] s = "BROWN" -> "brown"
      [] s = "WHITE" -> "white"
      [] OTHER -> s

startsWith(s, prefix) ==
    Len(s) >= Len(prefix) /\ SubSeq(s, 1, Len(prefix)) = prefix

\* { ...a, ...b }: the fields of both, b's value where both have the field
Spread(a, b) == b @@ a

-----------------------------------------------------------------------------
(* shared/schema: the validation schemas *)

zipCodeSchema(zipCode) ==
    Len(zipCode) = 5 /\ \A i \in 1..5 : IsDigit(zipCode[i])

\* the schema without .max(20)
radiusSchema_NoMax(radius) == radius # NaN /\ radius[1] >= 1

radiusSchema(radius) ==
    radius # NaN /\ radius[1] >= 1 /\ radius[1] <= 20

eggTypeSchema(eggType) == eggType \in {"white", "brown"}

-----------------------------------------------------------------------------
(* server/utils/geocoding *)

Coord(lat, lng) == [lat |-> lat, lng |-> lng]

zipCoordinates ==
       <<"9", "4", "1", "1", "0">> :> Coord(377489, -1224215)
    @@ <<"9", "4", "1", "0", "5">> :> Coord(377897, -1223995)
    @@ <<"9", "4", "1", "0", "7">> :> Coord(377697, -1223933)
    @@ <<"9", "4", "1", "0", "3">> :> Coord(377726, -1224099)
    @@ <<"9", "4", "1", "0", "2">> :> Coord(377797, -1224186)
    @@ <<"8", "0", "1", "2", "6">> :> Coord(395486, -1049719)
    @@ <<"8", "0", "1", "2", "9">> :> Coord(395410, -1050210)
    @@ <<"8", "0", "1", "3", "0">> :> Coord(395630, -1049160)
    @@ <<"8", "0", "1", "2", "4">> :> Coord(395290, -1048871)
    @@ <<"8", "0", "1", "2", "5">> :> Coord(394879, -1050055)
    @@ <<"8", "0", "2", "0", "2">> :> Coord(397533, -1049937)
    @@ <<"8", "0", "2", "0", "9">> :> Coord(397108, -1049550)
    @@ <<"8", "0", "4", "0", "1">> :> Coord(397555, -1052211)
    @@ <<"3", "3", "4", "2", "6">> :> Coord(266765, -801256)
    @@ <<"3", "3", "4", "3", "3">> :> Coord(263749, -801489)
    @@ <<"3", "3", "4", "4", "4">> :> Coord(264665, -800720)
    @@ <<"3", "3", "4", "5", "8">> :> Coord(269256, -801145)
    @@ <<"3", "3", "4", "0", "9">> :> Coord(267070, -800894)
    @@ <<"1", "0", "0", "0", "1">> :> Coord(407501, -739950)
    @@ <<"6", "0", "6", "0", "1">> :> Coord(418855, -876221)
    @@ <<"9", "0", "0", "0", "1">> :> Coord(339731, -1182479)
    @@ <<"7", "5", "0", "0", "1">> :> Coord(329617, -968946)

\* the regional anchor of the switch on the first digit
RegionBase(zipCode) ==
    LET firstDigit == DigitVal(zipCode[1])
        two == SubSeq(zipCode, 1, 2)
    IN  CASE firstDigit = 0 -> Coord(425000, -715000)
          [] firstDigit = 1 -> Coord(408000, -740000)
          [] firstDigit = 2 -> Coord(375000, -775000)
          [] firstDigit = 3 -> Coord(340000, -850000)
          [] firstDigit = 4 -> Coord(400000, -840000)
          [] firstDigit = 5 -> Coord(435000, -930000)
          [] firstDigit = 6 -> Coord(390000, -920000)
          [] firstDigit = 7 -> Coord(320000, -970000)
          [] firstDigit = 8 -> Coord(390000, -1060000)
          [] firstDigit = 9 ->
                IF two \in {<<"9", "0">>, <<"9", "1">>} THEN Coord(340000, -1182000)
                ELSE IF two \in {<<"9", "4">>, <<"9", "5">>} THEN Coord(377000, -1224000)
                ELSE IF two \in {<<"9", "8">>, <<"9", "9">>} THEN Coord(476000, -1223000)
                ELSE IF two \in {<<"9", "6">>, <<"9", "7">>} THEN Coord(455000, -1226000)
                ELSE Coord(360000, -1190000)

\* an offset taken from the clock
nearbyCoords_Clock(zipCode) ==
    Coord(395486 + now, -1049719 - now)

\* lines 62-69: the coordinates of 80126, moved by the last digit
nearbyCoords(zipCode) ==
    LET lastDigit == DigitVal(zipCode[5])
    IN  Coord(395486 + lastDigit * 100, -1049719 - lastDigit * 100)

\* the table alone: null for a postal code it does not list
getCoordinatesForZipCode_TableOnly(zipCode) ==
    IF zipCode \in DOMAIN zipCoordinates THEN Some(zipCoordinates[zipCode]) ELSE null

\* Promise<Coordinates | null>
getCoordinatesForZipCode(zipCode) ==
    LET lastDigits == DigitsToNat(SubSeq(zipCode, 4, 5))
        base == RegionBase(zipCode)
    IN  Some(
        IF zipCode \in DOMAIN zipCoordinates THEN zipCoordinates[zipCode]
        ELSE IF \/ startsWith(zipCode, <<"8", "0", "1", "2">>)
                \/ startsWith(zipCode, <<"8", "0", "1", "3">>)
                \/ startsWith(zipCode, <<"8", "0", "1", "1">>)
        THEN nearbyCoords(zipCode)
        ELSE IF startsWith(zipCode, <<"3", "3">>)
        THEN Coord(262000 + (lastDigits % 10) * 200, -803000 - (lastDigits % 7) * 300)
        ELSE IF startsWith(zipCode, <<"3", "4">>)
        THEN Coord(281000 + (lastDigits % 10) * 200, -824000 - (lastDigits % 7) * 300)
        ELSE Coord(base.lat + (lastDigits % 10) * 200, base.lng - (lastDigits % 7) * 150))

\* The haversine formula of calculateDistance (R = 3958.8 miles), evaluated
\* in double precision at every pair of coordinates that the stores and the
\* postal codes of this model can take, rounded to 1e-3 miles.
HaversineMilli ==
    <<377691, -1224152, 377691, -1224152>> :> 0
    @@ <<377691, -1224152, 377697, -1223845>> :> 1677
    @@ <<377691, -1224152, 377726, -1224099>> :> 377
    @@ <<377691, -1224152, 377735, -1224224>> :> 497
    @@ <<377691, -1224152, 377876, -1223962>> :> 1646
    @@ <<377691, -1224152, 377897, -1223995>> :> 1662
    @@ <<377691, -1224152, 377997, -1224095>> :> 2137
    @@ <<377691, -1224152, 477600, -1223000>> :> 690337
    @@ <<377691, -1224152, 477800, -1223150>> :> 691713
    @@ <<377691, -1224152, 477900, -1223250>> :> 692400
    @@ <<377697, -1223845, 377691, -1224152>> :> 1677
    @@ <<377697, -1223845, 377697, -1223845>> :> 0
    @@ <<377697, -1223845, 377726, -1224099>> :> 1402
    @@ <<377697, -1223845, 377735, -1224224>> :> 2087
    @@ <<377697, -1223845, 377876, -1223962>> :> 1392
    @@ <<377697, -1223845, 377897, -1223995>> :> 1606
    @@ <<377697, -1223845, 377997, -1224095>> :> 2482
    @@ <<377697, -1223845, 477600, -1223000>> :> 690284
    @@ <<377697, -1223845, 477800, -1223150>> :> 691662
    @@ <<377697, -1223845, 477900, -1223250>> :> 692350
    @@ <<377726, -1224099, 377691, -1224152>> :> 377
    @@ <<377726, -1224099, 377697, -1223845>> :> 1402
    @@ <<377726, -1224099, 377726, -1224099>> :> 0
    @@ <<377726, -1224099, 377735, -1224224>> :> 686
    @@ <<377726, -1224099, 377876, -1223962>> :> 1278
    @@ <<377726, -1224099, 377897, -1223995>> :> 1311
    @@ <<377726, -1224099, 377997, -1224095>> :> 1873
    @@ <<377726, -1224099, 477600, -1223000>> :> 690093
    @@ <<377726, -1224099, 477800, -1223150>> :> 691469
    @@ <<377726, -1224099, 477900, -1223250>> :> 692156
    @@ <<377735, -1224224, 377691, -1224152>> :> 497
    @@ <<377735, -1224224, 377697, -1223845>> :> 2087
    @@ <<377735, -1224224, 377726, -1224099>> :> 686
    @@ <<377735, -1224224, 377735, -1224224>> :> 0
    @@ <<377735, -1224224, 377876, -1223962>> :> 1731
    @@ <<377735, -1224224, 377897, -1223995>> :> 1678
    @@ <<377735, -1224224, 377997, -1224095>> :> 1942
    @@ <<377735, -1224224, 477600, -1223000>> :> 690036
    @@ <<377735, -1224224, 477800, -1223150>> :> 691411
    @@ <<377735, -1224224, 477900, -1223250>> :> 692098
    @@ <<377876, -1223962, 377691, -1224152>> :> 1646
    @@ <<377876, -1223962, 377697, -1223845>> :> 1392
    @@ <<377876, -1223962, 377726, -1224099>> :> 1278
    @@ <<377876, -1223962, 377735, -1224224>> :> 1731
    @@ <<377876, -1223962, 377876, -1223962>> :> 0
    @@ <<377876, -1223962, 377897, -1223995>> :> 231
    @@ <<377876, -1223962, 377997, -1224095>> :> 1107
    @@ <<377876, -1223962, 477600, -1223000>> :> 689051
    @@ <<377876, -1223962, 477800, -1223150>> :> 690428
    @@ <<377876, -1223962, 477900, -1223250>> :> 691116
    @@ <<377897, -1223995, 377691, -1224152>> :> 1662
    @@ <<377897, -1223995, 377697, -1223845>> :> 1606
    @@ <<377897, -1223995, 377726, -1224099>> :> 1311
    @@ <<377897, -1223995, 377735, -1224224>> :> 1678
    @@ <<377897, -1223995, 377876, -1223962>> :> 231
    @@ <<377897, -1223995, 377897, -1223995>> :> 0
    @@ <<377897, -1223995, 377997, -1224095>> :> 881
    @@ <<377897, -1223995, 477600, -1223000>> :> 688907
    @@ <<377897, -1223995, 477800, -1223150>> :> 690284
    @@ <<377897, -1223995, 477900, -1223250>> :> 690972
    @@ <<377997, -1224095, 377691, -1224152>> :> 2137
    @@ <<377997, -1224095, 377697, -1223845>> :> 2482
    @@ <<377997, -1224095, 377726, -1224099>> :> 1873
    @@ <<377997, -1224095, 377735, -1224224>> :> 1942
    @@ <<377997, -1224095, 377876, -1223962>> :> 1107
    @@ <<377997, -1224095, 377897, -1223995>> :> 881
    @@ <<377997, -1224095, 377997, -1224095>> :> 0
    @@ <<377997, -1224095, 477600, -1223000>> :> 688220
    @@ <<377997, -1224095, 477800, -1223150>> :> 689596
    @@ <<377997, -1224095, 477900, -1223250>> :> 690284
    @@ <<477600, -1223000, 377691, -1224152>> :> 690337
    @@ <<477600, -1223000, 377697, -1223845>> :> 690284
    @@ <<477600, -1223000, 377726, -1224099>> :> 690093
    @@ <<477600, -1223000, 377735, -1224224>> :> 690036
    @@ <<477600, -1223000, 377876, -1223962>> :> 689051
    @@ <<477600, -1223000, 377897, -1223995>> :> 688907
    @@ <<477600, -1223000, 377997, -1224095>> :> 688220
    @@ <<477600, -1223000, 477600, -1223000>> :> 0
    @@ <<477600, -1223000, 477800, -1223150>> :> 1548
    @@ <<477600, -1223000, 477900, -1223250>> :> 2376
    @@ <<477800, -1223150, 377691, -1224152>> :> 691713
    @@ <<477800, -1223150, 377697, -1223845>> :> 691662
    @@ <<477800, -1223150, 377726, -1224099>> :> 691469
    @@ <<477800, -1223150, 377735, -1224224>> :> 691411
    @@ <<477800, -1223150, 377876, -1223962>> :> 690428
    @@ <<477800, -1223150, 377897, -1223995>> :> 690284
    @@ <<477800, -1223150, 377997, -1224095>> :> 689596
    @@ <<477800, -1223150, 477600, -1223000>> :> 1548
    @@ <<477800, -1223150, 477800, -1223150>> :> 0
    @@ <<477800, -1223150, 477900, -1223250>> :> 832
    @@ <<477900, -1223250, 377691, -1224152>> :> 692400
    @@ <<477900, -1223250, 377697, -1223845>> :> 692350
    @@ <<477900, -1223250, 377726, -1224099>> :> 692156
    @@ <<477900, -1223250, 377735, -1224224>> :> 692098
    @@ <<477900, -1223250, 377876, -1223962>> :> 691116
    @@ <<477900, -1223250, 377897, -1223995>> :> 690972
    @@ <<477900, -1223250, 377997, -1224095>> :> 690284
    @@ <<477900, -1223250, 477600, -1223000>> :> 2376
    @@ <<477900, -1223250, 477800, -1223150>> :> 832
    @@ <<477900, -1223250, 477900, -1223250>> :> 0

calculateDistance(lat1, lng1, lat2, lng2) ==
    HaversineMilli[<<lat1, lng1, lat2, lng2>>]

\* radiusMiles in 1e-3 miles
isWithinRadius(centerLat, centerLng, pointLat, pointLng, radiusMiles) ==
    calculateDistance(centerLat, centerLng, pointLat, pointLng) <= radiusMiles

-----------------------------------------------------------------------------
(* server/storage: MemStorage *)

RECURSIVE KeysAscending(_)
KeysAscending(S) ==
    IF S = {} THEN <<>>
    ELSE LET k == CHOOSE x \in S : \A y \in S : x <= y
         IN  <<k>> \o KeysAscending(S \ {k})

\* Array.from(map.values()): insertion order, which is the order of the keys
\* because every key is the counter's value at insertion
MapValues(m) ==
    LET ks == KeysAscending(DOMAIN m)
    IN  [i \in 1..Len(ks) |-> m[ks[i]]]

\* an element goes before the elements it ties with
InsertNewestFirst_BeforeTies(sorted, p) ==
    LET k == Cardinality({i \in 1..Len(sorted) : sorted[i].recordedAt > p.recordedAt})
    IN  SubSeq(sorted, 1, k) \o <<p>> \o SubSeq(sorted, k + 1, Len(sorted))

\* one step of the stable sort with comparator b.recordedAt - a.recordedAt
InsertNewestFirst(sorted, p) ==
    LET k == Cardinality({i \in 1..Len(sorted) : sorted[i].recordedAt >= p.recordedAt})
    IN  SubSeq(sorted, 1, k) \o <<p>> \o SubSeq(sorted, k + 1, Len(sorted))

RECURSIVE SortNewestFirst(_)
SortNewestFirst(s) ==
    IF s = <<>> THEN <<>>
    ELSE InsertNewestFirst(SortNewestFirst(SubSeq(s, 1, Len(s) - 1)), s[Len(s)])

\* a list kept from construction, which later stores never enter
getStores_Cached == [i \in 1..NumSampleStores |-> storesData[i]]

getStores == MapValues(storesData)

getStore(id) ==
    IF id \in DOMAIN storesData THEN Some(storesData[id]) ELSE undefined

\* const store = { id, ...insertStore }: an id of the caller wins
NewStore_CallerId(insertStore, id) == Spread([id |-> id], insertStore)

\* const store = { ...insertStore, id }
NewStore(insertStore, id) == Spread(insertStore, [id |-> id])

\* const price = { ...insertPrice, id, recordedAt: new Date() }
NewPrice(insertPrice, id, date) ==
    Spread(insertPrice, [id |-> id, recordedAt |-> date])

\* the id is taken and the store is not kept
createStore_NotKept(insertStore) ==
    LET id == storeCurrentId
    IN  /\ storeCurrentId' = id + 1
        /\ storesData' = storesData

createStore(insertStore) ==
    LET id == storeCurrentId
    IN  /\ storeCurrentId' = id + 1
        /\ storesData' = (id :> NewStore(insertStore, id)) @@ storesData

\* const id = this.priceCurrentId: the counter is read and not advanced
createPrice_NoIncrement(insertPrice) ==
    LET id == priceCurrentId
    IN  /\ priceCurrentId' = id
        /\ pricesData' = (id :> NewPrice(insertPrice, id, now)) @@ pricesData

createPrice(insertPrice) ==
    LET id == priceCurrentId
    IN  /\ priceCurrentId' = id + 1
        /\ pricesData' = (id :> NewPrice(insertPrice, id, now)) @@ pricesData

getPricesByStoreId(storeId) ==
    SortNewestFirst(SelectSeq(MapValues(pricesData),
                              LAMBDA price : price.storeId = storeId))

\* storePrices[storePrices.length - 1]: the oldest observation
getLatestPriceByStore_Oldest(storeId, eggType) ==
    LET storePrices ==
            SortNewestFirst(SelectSeq(MapValues(pricesData),
                LAMBDA price : price.storeId = storeId /\ price.eggType = eggType))
    IN  IF Len(storePrices) > 0 THEN Some(storePrices[Len(storePrices)]) ELSE undefined

getLatestPriceByStore(storeId, eggType) ==
    LET storePrices ==
            SortNewestFirst(SelectSeq(MapValues(pricesData),
                LAMBDA price : price.storeId = storeId /\ price.eggType = eggType))
    IN  IF Len(storePrices) > 0 THEN Some(storePrices[1]) ELSE undefined

\* the view of one id inside getStoresWithPrices; null when no store has the id
StoreWithPrices(id, eggType) ==
    LET store == getStore(id)
        latestPrice == getLatestPriceByStore(id, eggType)
        priceHistory == getPricesByStoreId(id)
    IN  IF store = undefined THEN null
        ELSE Some(Spread(store[1],
                [currentPrice |-> IF latestPrice # undefined
                                  THEN Some(StringToNumber(latestPrice[1].price, 2))
                                  ELSE null,
                 priceHistory |-> SelectSeq(priceHistory,
                                            LAMBDA p : p.eggType = eggType)]))

\* the views of the stores whose id is among storeIds, in the order of the
\* repository
getStoresWithPrices_StoreOrder(storeIds, eggType) ==
    LET ids == SelectSeq(KeysAscending(DOMAIN storesData),
                         LAMBDA id : \E i \in 1..Len(storeIds) : storeIds[i] = id)
    IN  [i \in 1..Len(ids) |-> StoreWithPrices(ids[i], eggType)[1]]

getStoresWithPrices(storeIds, eggType) ==
    LET stores == [i \in 1..Len(storeIds) |-> StoreWithPrices(storeIds[i], eggType)]
        kept == SelectSeq(stores, LAMBDA s : s # null)
    IN  [i \in 1..Len(kept) |-> kept[i][1]]

\* Math.random() in thousandths; the draws follow one of the rotations of
\* this stream
RandomStream == <<0, 999, 500>>
Random(i) == RandomStream[((i - 1) % Len(RandomStream)) + 1]
NextRng(i, draws) == ((i + draws - 1) % Len(RandomStream)) + 1

sampleStores == <<
    [name |-> "Trader Joe's", address |-> "555 Market St", city |-> "San Francisco",
     state |-> "CA", zipCode |-> <<"9", "4", "1", "0", "5">>,
     latitude |-> <<"3", "7", ".", "7", "8", "9", "7">>,
     longitude |-> <<"-", "1", "2", "2", ".", "3", "9", "9", "5">>],
    [name |-> "Safeway", address |-> "298 Main Ave", city |-> "San Francisco",
     state |-> "CA", zipCode |-> <<"9", "4", "1", "0", "5">>,
     latitude |-> <<"3", "7", ".", "7", "8", "7", "6">>,
     longitude |-> <<"-", "1", "2", "2", ".", "3", "9", "6", "2">>],
    [name |-> "Whole Foods", address |-> "123 Valencia St", city |-> "San Francisco",
     state |-> "CA", zipCode |-> <<"9", "4", "1", "1", "0">>,
     latitude |-> <<"3", "7", ".", "7", "7", "3", "5">>,
     longitude |-> <<"-", "1", "2", "2", ".", "4", "2", "2", "4">>],
    [name |-> "Rainbow Grocery", address |-> "1745 Folsom St", city |-> "San Francisco",
     state |-> "CA", zipCode |-> <<"9", "4", "1", "1", "0">>,
     latitude |-> <<"3", "7", ".", "7", "6", "9", "1">>,
     longitude |-> <<"-", "1", "2", "2", ".", "4", "1", "5", "2">>] >>

getBasePriceForStore(storeId) ==
    CASE storeId = 1 -> 399
      [] storeId = 2 -> 459
      [] storeId = 3 -> 529
      [] storeId = 4 -> 419
      [] OTHER -> 429

oneDay == 24 * 60 * 60 * 1000

\* the record createSamplePrice stores under id; priceMilli is the price
\* argument in thousandths of a cent
createSamplePrice(id, storeId, eggType, priceMilli, date) ==
    [id |-> id, storeId |-> storeId, eggType |-> eggType,
     price |-> NumberToString(Max(199, MathRound(priceMilli, 1000)), 2),
     recordedAt |-> date]

\* the price record initSampleData stores under id, when the first draw of
\* Math.random() is draw number r0 of the stream
SamplePrice(id, r0) ==
    LET per == 2 + 2 * HistoryDays
        storeId == ((id - 1) \div per) + 1
        j == (id - 1) % per
        white == j % 2 = 1
        i == j \div 2
        draw == ((storeId - 1) * HistoryDays + (i - 1)) * 2 + (j % 2)
        base == (getBasePriceForStore(storeId) - (IF white THEN 20 ELSE 0)) * 1000
        variation == Random(r0 + draw) * 40 - 20000
    IN  createSamplePrice(id, storeId, IF white THEN "white" ELSE "brown",
                          IF i = 0 THEN base ELSE base + variation,
                          0 - i * oneDay)

SampleDraws == NumSampleStores * HistoryDays * 2

-----------------------------------------------------------------------------
(* server/routes: GET /api/prices *)

Slots == {1, 2}

Query(zipCode, radius, eggType) ==
    [zipCode |-> zipCode, radius |-> radius, eggType |-> eggType]

\* the requests clients send
Queries == {
    Query(<<"9", "4", "1", "0", "5">>, <<"1">>, "brown"),
    Query(<<"9", "4", "1", "0", "3">>, <<"1", ".", "7">>, "White"),
    Query(<<"9", "9", "9", "9", "9">>, <<"1">>, "White"),
    Query(<<"9", "9", "9", "9", "9">>, <<>>, "brown"),
    Query(<<"a", "b", "c", "1", "2">>, <<"2", "1">>, "green"),
    Query(<<"9", "9", "9", "9", "9">>, <<"2", "1">>, "green"),
    Query(<<"9", "9", "9", "9", "9">>, <<"5">>, "green") }

\* an absent parameter is <<>> (radius, zipCode) or "" (eggType)
NoQuery == [zipCode |-> <<>>, radius |-> <<>>, eggType |-> ""]
NoResponse == [status |-> 0]

IdleReq ==
    [pc |-> "idle", route |-> "", asked |-> NoQuery, param |-> <<>>,
     zipCode |-> <<>>, radius |-> 0,
     storeId |-> NaN, store |-> undefined, brownPrice |-> undefined, threw |-> FALSE,
     eggType |-> "", centerCoords |-> Coord(0, 0), allStores |-> <<>>,
     storeIds |-> <<>>, localStore |-> 0, farmersMarket |-> 0, organicShop |-> 0,
     step |-> 0, backfilled |-> FALSE, response |-> NoResponse]

\* stores, seen, had, added and failed keep what the current run, or else the
\* last one, did: the stores it listed, the stores it went to, the (store,
\* variant) pairs it found a latest price for, the ids of the prices it
\* created, and the stores whose update was given up by a rejected call
IdleCron ==
    [pc |-> "idle", stores |-> <<>>, i |-> 0, latestBrownPrice |-> undefined,
     latestWhitePrice |-> undefined, newWhitePrice |-> 0, runs |-> 0,
     seen |-> <<>>, had |-> {}, added |-> {}, failed |-> {}]

NoSearch == [asked |-> NoQuery, backfilled |-> FALSE, shape |-> <<>>,
             zipStores |-> 0]
NoCall == [op |-> "none", n |-> 0]

\* before registerRoutes: no interval, no server
NoTimer == [registered |-> FALSE, armed |-> FALSE, due |-> FALSE, periods |-> 0,
            fired |-> 0, closed |-> FALSE, closedAt |-> 0]

Init ==
    /\ storesData = [id \in 1..NumSampleStores |-> NewStore(sampleStores[id], id)]
    /\ storeCurrentId = NumSampleStores + 1
    /\ \E r0 \in 1..MaxSeed :
          /\ pricesData = [id \in 1..(NumSampleStores * (2 + 2 * HistoryDays))
                              |-> SamplePrice(id, r0)]
          /\ rng = NextRng(r0, SampleDraws)
    /\ priceCurrentId = NumSampleStores * (2 + 2 * HistoryDays) + 1
    /\ now = 0
    /\ NODE_ENV \in {"development", "production"}
    /\ req = [s \in Slots |-> IdleReq]
    /\ cron = IdleCron
    /\ started = 0
    /\ lastSearch = NoSearch
    /\ call = NoCall
    /\ turn = {}
    /\ switches = 0
    /\ faults = 0
    /\ timer = NoTimer

Reply(status, message) == [status |-> status, message |-> message]

\* lines 16-40: parse and validate the query, resolve the postal code
Handle(s, q, asked, backfilled) ==
    LET zipCode == q.zipCode
        radius == parseInt(IF q.radius = <<>> THEN <<"5">> ELSE q.radius)
        eggType == toLowerCase(IF q.eggType = "" THEN "brown" ELSE q.eggType)
        centerCoords == getCoordinatesForZipCode(zipCode)
        r == [IdleReq EXCEPT !.route = "/api/prices", !.asked = asked,
                             !.backfilled = backfilled]
    IN  req' = [req EXCEPT ![s] =
            IF ~zipCodeSchema(zipCode)
            THEN [r EXCEPT !.pc = "responded",
                    !.response = Reply(400, "Invalid zip code. Must be 5 digits.")]
            ELSE IF ~radiusSchema(radius)
            THEN [r EXCEPT !.pc = "responded",
                    !.response = Reply(400, "Invalid radius. Must be between 1 and 20 miles.")]
            ELSE IF ~eggTypeSchema(eggType)
            THEN [r EXCEPT !.pc = "responded",
                    !.response = Reply(400, "Invalid egg type. Must be 'white' or 'brown'.")]
            ELSE IF centerCoords = null
            THEN [r EXCEPT !.pc = "responded",
                    !.response = Reply(400, "Could not find coordinates for the provided zip code.")]
            ELSE [r EXCEPT !.pc = "getStores", !.zipCode = zipCode,
                    !.radius = radius[1], !.eggType = eggType,
                    !.centerCoords = centerCoords[1]]]

\* a client sends GET /api/prices
Receive(s, q) ==
    /\ req[s].pc = "idle"
    /\ \A t \in Slots : t < s => req[t].pc # "idle"
    /\ started + call.n < MaxRequests
    /\ started' = started + 1
    /\ Handle(s, q, q, FALSE)
    /\ UNCHANGED <<repo, now, rng, NODE_ENV, cron, lastSearch, call>>

\* line 43: const allStores = await storage.getStores()
GetStores(s) ==
    /\ req[s].pc = "getStores"
    /\ req' = [req EXCEPT ![s].pc = "filter", ![s].allStores = getStores]
    /\ UNCHANGED <<repo, now, rng, NODE_ENV, cron, started, lastSearch, call>>

\* the filter without the 0.5 mile buffer
StoresInRadius_NoBuffer(allStores, centerCoords, radius) ==
    SelectSeq(allStores, LAMBDA store :
        isWithinRadius(centerCoords.lat, centerCoords.lng,
                       StringToNumber(store.latitude, 4),
                       StringToNumber(store.longitude, 4),
                       radius * 1000))

\* lines 47-67
StoresInRadius(allStores, centerCoords, radius) ==
    SelectSeq(allStores, LAMBDA store :
        isWithinRadius(centerCoords.lat, centerCoords.lng,
                       StringToNumber(store.latitude, 4),
                       StringToNumber(store.longitude, 4),
                       radius * 1000 + 500))

getStateFromZip(zipCode) ==
    LET firstDigit == DigitVal(zipCode[1])
    IN  <<"CT", "NY", "DC", "FL", "IN", "MI", "MO", "TX", "CO", "CA">>[firstDigit + 1]

getPlaceName(zipCode) ==
    LET firstDigit == DigitVal(zipCode[1])
        numValue == DigitsToNat(SubSeq(zipCode, 4, 5))
        regionPrefix == <<"New England", "Metro", "Capital", "Coastal", "Great Lakes",
                          "Midwestern", "Central", "Southern", "Mountain",
                          "West Coast">>[firstDigit + 1]
        suffix == IF numValue < 20 THEN "ville"
                  ELSE IF numValue < 40 THEN "town"
                  ELSE IF numValue < 60 THEN "burg"
                  ELSE IF numValue < 80 THEN "field"
                  ELSE "city"
    IN  <<regionPrefix, suffix>>

\* lines 81-120: the three synthetic stores, by position
DemoStore(k, zipCode, centerCoords) ==
    LET name == <<"Local Grocery", "Farmers Market", "Organic Essentials">>[k]
        address == <<"123 Main Street", "456 Oak Avenue", "789 Maple Drive">>[k]
        dLat == <<0, 100, -200>>[k]
        dLng == <<0, -100, 150>>[k]
    IN  [name |-> name, address |-> address, city |-> getPlaceName(zipCode),
         state |-> getStateFromZip(zipCode), zipCode |-> zipCode,
         latitude |-> NumberToString(centerCoords.lat + dLat, 4),
         longitude |-> NumberToString(centerCoords.lng + dLng, 4)]

\* the price of the third store goes to the id after it, which no store has yet
DemoPrice_UnsavedStore(k, r, localStore, farmersMarket, organicShop, date) ==
    LET storeId == <<localStore, farmersMarket, organicShop + 1,
                     localStore, farmersMarket, organicShop + 1>>[k]
        base == <<429, 459, 489, 399, 419, 449>>[k]
    IN  [storeId |-> storeId,
         eggType |-> IF k <= 3 THEN "brown" ELSE "white",
         price |-> NumberToString(MathRound(base * 1000 + r * 40 - 20000, 1000), 2),
         recordedAt |-> date]

\* the six synthetic prices, all of them brown
DemoPrice_BrownOnly(k, r, localStore, farmersMarket, organicShop, date) ==
    LET storeId == <<localStore, farmersMarket, organicShop,
                     localStore, farmersMarket, organicShop>>[k]
        base == <<429, 459, 489, 399, 419, 449>>[k]
    IN  [storeId |-> storeId,
         eggType |-> "brown",
         price |-> NumberToString(MathRound(base * 1000 + r * 40 - 20000, 1000), 2),
         recordedAt |-> date]

\* lines 124-165: the six synthetic prices, by position; r is Math.random()
DemoPrice(k, r, localStore, farmersMarket, organicShop, date) ==
    LET storeId == <<localStore, farmersMarket, organicShop,
                     localStore, farmersMarket, organicShop>>[k]
        base == <<429, 459, 489, 399, 419, 449>>[k]
    IN  [storeId |-> storeId,
         eggType |-> IF k <= 3 THEN "brown" ELSE "white",
         price |-> NumberToString(MathRound(base * 1000 + r * 40 - 20000, 1000), 2),
         recordedAt |-> date]

\* zeros in the place of the nulls
EmptyResult_Zero ==
    [status |-> 200, stores |-> <<>>, minPrice |-> Some(0), maxPrice |-> Some(0)]

EmptyResult == [status |-> 200, stores |-> <<>>, minPrice |-> null, maxPrice |-> null]

\* the backfill in every environment
Filter_AnyEnv(s) ==
    LET r == req[s]
        storesInRadius == StoresInRadius(r.allStores, r.centerCoords, r.radius)
        insert == DemoStore(1, r.zipCode, r.centerCoords)
    IN  /\ r.pc = "filter"
        /\ IF Len(storesInRadius) = 0
           THEN IF TRUE
                THEN /\ createStore(insert)
                     /\ req' = [req EXCEPT ![s].pc = "createStore", ![s].step = 2,
                                  ![s].allStores = <<>>,
                                  ![s].localStore = NewStore(insert, storeCurrentId).id]
                     /\ UNCHANGED <<pricesData, priceCurrentId>>
                ELSE /\ req' = [req EXCEPT ![s].pc = "responded", ![s].allStores = <<>>,
                                  ![s].response = EmptyResult]
                     /\ UNCHANGED repo
           ELSE /\ req' = [req EXCEPT ![s].pc = "getStoresWithPrices",
                             ![s].allStores = <<>>,
                             ![s].storeIds = [i \in 1..Len(storesInRadius)
                                                 |-> storesInRadius[i].id]]
                /\ UNCHANGED repo
        /\ UNCHANGED <<now, rng, NODE_ENV, cron, started, lastSearch, call>>

\* lines 47-120 and 172-187: the continuation after getStores
Filter(s) ==
    LET r == req[s]
        storesInRadius == StoresInRadius(r.allStores, r.centerCoords, r.radius)
        insert == DemoStore(1, r.zipCode, r.centerCoords)
    IN  /\ r.pc = "filter"
        /\ IF Len(storesInRadius) = 0
           THEN IF NODE_ENV = "development"
                THEN /\ createStore(insert)
                     /\ req' = [req EXCEPT ![s].pc = "createStore", ![s].step = 2,
                                  ![s].allStores = <<>>,
                                  ![s].localStore = NewStore(insert, storeCurrentId).id]
                     /\ UNCHANGED <<pricesData, priceCurrentId>>
                ELSE /\ req' = [req EXCEPT ![s].pc = "responded", ![s].allStores = <<>>,
                                  ![s].response = EmptyResult]
                     /\ UNCHANGED repo
           ELSE /\ req' = [req EXCEPT ![s].pc = "getStoresWithPrices",
                             ![s].allStores = <<>>,
                             ![s].storeIds = [i \in 1..Len(storesInRadius)
                                                 |-> storesInRadius[i].id]]
                /\ UNCHANGED repo
        /\ UNCHANGED <<now, rng, NODE_ENV, cron, started, lastSearch, call>>

\* lines 95-120: the second and the third synthetic store
CreateDemoStore(s) ==
    LET r == req[s]
        insert == DemoStore(r.step, r.zipCode, r.centerCoords)
        id == NewStore(insert, storeCurrentId).id
    IN  /\ r.pc = "createStore"
        /\ createStore(insert)
        /\ req' = [req EXCEPT ![s] =
              IF r.step = 2
              THEN [r EXCEPT !.step = 3, !.farmersMarket = id]
              ELSE [r EXCEPT !.pc = "createPrice", !.step = 1, !.organicShop = id]]
        /\ UNCHANGED <<pricesData, priceCurrentId, now, rng, NODE_ENV, cron, started,
                       lastSearch, call>>

\* a Location that leaves the radius out
RedirectQuery_NoRadius(zipCode, radius, eggType) ==
    [zipCode |-> zipCode, radius |-> <<>>, eggType |-> eggType]

\* line 169: the query of the redirect's Location
RedirectQuery(zipCode, radius, eggType) ==
    [zipCode |-> zipCode, radius |-> NatToString(radius), eggType |-> eggType]

\* lines 124-169: the six synthetic prices, then the redirect
CreateDemoPrice(s) ==
    LET r == req[s]
    IN  /\ r.pc = "createPrice"
        /\ createPrice(DemoPrice(r.step, Random(rng), r.localStore, r.farmersMarket,
                                 r.organicShop, now))
        /\ rng' = NextRng(rng, 1)
        /\ req' = [req EXCEPT ![s] =
              IF r.step < 6
              THEN [r EXCEPT !.step = r.step + 1]
              ELSE [r EXCEPT !.pc = "redirected", !.step = 0,
                      !.response = [status |-> 307,
                                    location |-> RedirectQuery(r.zipCode, r.radius,
                                                               r.eggType)]]]
        /\ UNCHANGED <<storesData, storeCurrentId, now, NODE_ENV, cron, started,
                       lastSearch, call>>

\* the client follows the 307 redirect: a new GET /api/prices
FollowRedirect(s) ==
    /\ req[s].pc = "redirected"
    /\ Handle(s, req[s].response.location, req[s].asked, TRUE)
    /\ UNCHANGED <<repo, now, rng, NODE_ENV, cron, started, lastSearch, call>>

RECURSIVE SeqMin(_)
SeqMin(s) == IF Len(s) = 1 THEN s[1]
             ELSE LET m == SeqMin(Tail(s)) IN IF s[1] <= m THEN s[1] ELSE m
\* the first price in the place of the greatest
SeqMax_First(s) == s[1]

RECURSIVE SeqMax(_)
SeqMax(s) == IF Len(s) = 1 THEN s[1]
             ELSE LET m == SeqMax(Tail(s)) IN IF s[1] >= m THEN s[1] ELSE m

\* lines 190-205: the result envelope
Envelope(storesWithPrices, zipCode) ==
    LET present == SelectSeq(storesWithPrices, LAMBDA store : store.currentPrice # null)
        prices == [i \in 1..Len(present) |-> present[i].currentPrice[1]]
    IN  [status |-> 200,
         stores |-> [i \in 1..Len(storesWithPrices) |->
                        Spread(storesWithPrices[i], [zipCode |-> zipCode])],
         minPrice |-> IF Len(prices) > 0 THEN Some(SeqMin(prices)) ELSE null,
         maxPrice |-> IF Len(prices) > 0 THEN Some(SeqMax(prices)) ELSE null]

\* lines 187-208
GetStoresWithPrices(s) ==
    LET r == req[s]
    IN  /\ r.pc = "getStoresWithPrices"
        /\ req' = [req EXCEPT ![s].pc = "responded",
                     ![s].response = Envelope(getStoresWithPrices(r.storeIds, r.eggType),
                                              r.zipCode)]
        /\ UNCHANGED <<repo, now, rng, NODE_ENV, cron, started, lastSearch, call>>

\* what a client sees of a result: the vendors' names and coordinates
Shape(stores) ==
    [i \in 1..Len(stores) |->
        [name |-> stores[i].name, latitude |-> stores[i].latitude,
         longitude |-> stores[i].longitude]]

ZipStores(zipCode) ==
    Cardinality({id \in DOMAIN storesData : storesData[id].zipCode = zipCode})

\* the client has its final response; the slot is free again
Finish(s) ==
    LET r == req[s]
    IN  /\ r.pc = "responded"
        /\ req' = [req EXCEPT ![s] = IdleReq]
        /\ lastSearch' =
              IF r.response.status = 200 /\ r.backfilled
              THEN [asked |-> r.asked, backfilled |-> r.backfilled,
                    shape |-> Shape(r.response.stores),
                    zipStores |-> ZipStores(r.zipCode)]
              ELSE lastSearch
        /\ UNCHANGED <<repo, now, rng, NODE_ENV, cron, started, call>>

-----------------------------------------------------------------------------
(* server/routes: GET /api/stores/:storeId/prices and GET /api/stores/:storeId *)

\* one step of the stable sort with comparator a.recordedAt - b.recordedAt
InsertOldestFirst(sorted, p) ==
    LET k == Cardinality({i \in 1..Len(sorted) : sorted[i].recordedAt <= p.recordedAt})
    IN  SubSeq(sorted, 1, k) \o <<p>> \o SubSeq(sorted, k + 1, Len(sorted))

\* the list as getPricesByStoreId returned it
SortOldestFirst_Unsorted(s) == s

RECURSIVE SortOldestFirst(_)
SortOldestFirst(s) ==
    IF s = <<>> THEN <<>>
    ELSE InsertOldestFirst(SortOldestFirst(SubSeq(s, 1, Len(s) - 1)), s[Len(s)])

StoreQuery(storeId, eggType) == [storeId |-> storeId, eggType |-> eggType]

\* the price histories clients ask for: of a sample store, of the store a
\* backfill may have created, of a storeId that is no number, and of a variant
\* that is none
StoreQueries == {
    StoreQuery(<<"2">>, "White"),
    StoreQuery(<<"4">>, ""),
    StoreQuery(<<"a", "b", "c">>, "brown"),
    StoreQuery(<<"0">>, "green") }

\* the stores clients ask the details of
StoreIds == { <<"1">>, <<"4">> }

\* lines 218-228: a client sends GET /api/stores/:storeId/prices
ReceiveStorePrices(s, q) ==
    LET storeId == parseInt(q.storeId)
        eggType == toLowerCase(IF q.eggType = "" THEN "brown" ELSE q.eggType)
        r == [IdleReq EXCEPT !.route = "/api/stores/:storeId/prices",
                             !.param = q.storeId,
                             !.asked = Query(<<>>, <<>>, q.eggType)]
    IN  /\ req[s].pc = "idle"
        /\ \A t \in Slots : t < s => req[t].pc # "idle"
        /\ started + call.n < MaxRequests
        /\ started' = started + 1
        /\ req' = [req EXCEPT ![s] =
              IF ~eggTypeSchema(eggType)
              THEN [r EXCEPT !.pc = "responded",
                      !.response = Reply(400, "Invalid egg type. Must be 'white' or 'brown'.")]
              ELSE [r EXCEPT !.pc = "getStore", !.storeId = storeId,
                      !.eggType = eggType]]
        /\ UNCHANGED <<repo, now, rng, NODE_ENV, cron, lastSearch, call>>

\* lines 248-249: a client sends GET /api/stores/:storeId
ReceiveStore(s, storeId) ==
    /\ req[s].pc = "idle"
    /\ \A t \in Slots : t < s => req[t].pc # "idle"
    /\ started + call.n < MaxRequests
    /\ started' = started + 1
    /\ req' = [req EXCEPT ![s] =
          [IdleReq EXCEPT !.route = "/api/stores/:storeId",
                          !.param = storeId,
                          !.pc = "getStore", !.storeId = parseInt(storeId)]]
    /\ UNCHANGED <<repo, now, rng, NODE_ENV, cron, lastSearch, call>>

\* lines 229-232 and 249-253: Map.get finds nothing under NaN
GetStore(s) ==
    LET r == req[s]
        store == IF r.storeId = NaN THEN undefined ELSE getStore(r.storeId[1])
    IN  /\ r.pc = "getStore"
        /\ req' = [req EXCEPT ![s] =
              IF store = undefined
              THEN [r EXCEPT !.pc = "responded",
                      !.response = Reply(404, "Store not found.")]
              ELSE [r EXCEPT !.store = store,
                      !.pc = IF r.route = "/api/stores/:storeId/prices"
                             THEN "getPricesByStoreId" ELSE "getBrownPrice"]]
        /\ UNCHANGED <<repo, now, rng, NODE_ENV, cron, started, lastSearch, call>>

\* lines 234-238
GetPricesByStoreId(s) ==
    LET r == req[s]
        prices == SortOldestFirst(SelectSeq(getPricesByStoreId(r.storeId[1]),
                                            LAMBDA price : price.eggType = r.eggType))
    IN  /\ r.pc = "getPricesByStoreId"
        /\ req' = [req EXCEPT ![s].pc = "responded",
                     ![s].response = [status |-> 200, prices |-> prices]]
        /\ UNCHANGED <<repo, now, rng, NODE_ENV, cron, started, lastSearch, call>>

\* line 255
GetBrownPrice(s) ==
    /\ req[s].pc = "getBrownPrice"
    /\ req' = [req EXCEPT ![s].pc = "getWhitePrice",
                 ![s].brownPrice = getLatestPriceByStore(req[s].storeId[1], "brown")]
    /\ UNCHANGED <<repo, now, rng, NODE_ENV, cron, started, lastSearch, call>>

\* the body with the brown price under both keys
StoreDetails_BrownTwice(store, brownPrice, whitePrice) ==
    Spread(store,
           [prices |-> [brown |-> IF brownPrice # undefined
                                  THEN Some(StringToNumber(brownPrice[1].price, 2))
                                  ELSE null,
                        white |-> IF brownPrice # undefined
                                  THEN Some(StringToNumber(brownPrice[1].price, 2))
                                  ELSE null]])

\* lines 258-264: { ...store, prices: { brown, white } }
StoreDetails(store, brownPrice, whitePrice) ==
    Spread(store,
           [prices |-> [brown |-> IF brownPrice # undefined
                                  THEN Some(StringToNumber(brownPrice[1].price, 2))
                                  ELSE null,
                        white |-> IF whitePrice # undefined
                                  THEN Some(StringToNumber(whitePrice[1].price, 2))
                                  ELSE null]])

\* lines 256-264
GetWhitePrice(s) ==
    LET r == req[s]
        whitePrice == getLatestPriceByStore(r.storeId[1], "white")
    IN  /\ r.pc = "getWhitePrice"
        /\ req' = [req EXCEPT ![s].pc = "responded",
                     ![s].response = [status |-> 200,
                                      body |-> StoreDetails(r.store[1], r.brownPrice,
                                                            whitePrice)]]
        /\ UNCHANGED <<repo, now, rng, NODE_ENV, cron, started, lastSearch, call>>

\* the handler is at an await on a call of the repository
Awaiting(r) ==
    \/ r.pc \in {"getStores", "createStore", "createPrice", "getStoresWithPrices",
                 "getStore", "getPricesByStoreId", "getBrownPrice", "getWhitePrice"}
    \/ /\ r.pc = "filter"
       /\ NODE_ENV = "development"
       /\ Len(StoresInRadius(r.allStores, r.centerCoords, r.radius)) = 0

\* the rejection leaves the handler with no response sent
Caught_NoResponse(r) == [r EXCEPT !.pc = "idle", !.threw = TRUE]

\* lines 209-212, 238-241 and 266-269: the catch block of each handler
Caught(r) ==
    [r EXCEPT !.pc = "responded", !.threw = TRUE,
       !.response = Reply(500, "Error processing your request. Please try again later.")]

\* the repository call the handler awaits rejects
Throw(s) ==
    /\ Awaiting(req[s])
    /\ req' = [req EXCEPT ![s] = Caught(req[s])]
    /\ UNCHANGED <<repo, now, rng, NODE_ENV, cron, started, lastSearch, call>>

-----------------------------------------------------------------------------
(* server/cron: the price-refresh scheduler *)

\* lines 15-17: updateEggPrices, from its call to the list of the stores
updateEggPrices ==
    /\ cron.pc = "idle"
    /\ LET stores == getStores
           ids == [i \in 1..Len(stores) |-> stores[i].id]
       IN  cron' = [IdleCron EXCEPT !.runs = cron.runs + 1, !.stores = ids, !.i = 1,
                      !.pc = IF Len(ids) = 0 THEN "idle" ELSE "readBrown"]
    /\ UNCHANGED <<repo, rng, NODE_ENV, req, started, lastSearch, call>>

\* a run starts (at start-up, then from the interval timer)
StartRun ==
    /\ cron.runs < MaxRuns
    /\ updateEggPrices
    /\ UNCHANGED now

\* line 36
ReadBrown ==
    /\ cron.pc = "readBrown"
    /\ LET storeId == cron.stores[cron.i]
           latestBrownPrice == getLatestPriceByStore(storeId, "brown")
       IN  cron' = [cron EXCEPT !.pc = "readWhite",
                      !.latestBrownPrice = latestBrownPrice,
                      !.seen = Append(cron.seen, storeId),
                      !.had = IF latestBrownPrice = undefined THEN cron.had
                              ELSE cron.had \cup {<<storeId, "brown">>}]
    /\ UNCHANGED <<repo, now, rng, NODE_ENV, req, started, lastSearch, call>>

\* line 37
ReadWhite ==
    /\ cron.pc = "readWhite"
    /\ LET storeId == cron.stores[cron.i]
           latestWhitePrice == getLatestPriceByStore(storeId, "white")
       IN  cron' = [cron EXCEPT !.pc = "save",
                      !.latestWhitePrice = latestWhitePrice,
                      !.had = IF latestWhitePrice = undefined THEN cron.had
                              ELSE cron.had \cup {<<storeId, "white">>}]
    /\ UNCHANGED <<repo, now, rng, NODE_ENV, req, started, lastSearch, call>>

\* lines 19-21: the loop goes on to the next store, or the run ends
NextStore(c) ==
    IF c.i < Len(c.stores)
    THEN [c EXCEPT !.pc = "readBrown", !.i = c.i + 1, !.latestBrownPrice = undefined,
            !.latestWhitePrice = undefined, !.newWhitePrice = 0]
    ELSE [c EXCEPT !.pc = "idle", !.i = 0, !.latestBrownPrice = undefined,
            !.latestWhitePrice = undefined, !.newWhitePrice = 0]

\* lines 48-52: the price in cents after a variation of (r * 0.1 - 0.05),
\* r = Math.random() in thousandths
Perturb_TenPercent(priceNum, r) == MathRound(priceNum * (9000 + 2 * r), 10000)

\* the variation applied, and the cents cut off instead of rounded
Perturb_Floor(priceNum, r) == (priceNum * (9500 + r)) \div 10000

\* lines 48-52: the price in cents, r is Math.random() in thousandths
Perturb(priceNum, r) == MathRound(priceNum * (9500 + r), 10000)

\* lines 39-68: skip the store, or draw both variations and save the brown price
SaveBrown ==
    /\ cron.pc = "save"
    /\ IF cron.latestBrownPrice = undefined \/ cron.latestWhitePrice = undefined
       THEN /\ cron' = NextStore(cron)
            /\ UNCHANGED <<repo, rng>>
       ELSE LET brownPriceNum == StringToNumber(cron.latestBrownPrice[1].price, 2)
                whitePriceNum == StringToNumber(cron.latestWhitePrice[1].price, 2)
                newBrownPrice == Perturb(brownPriceNum, Random(rng))
                newWhitePrice == Perturb(whitePriceNum, Random(rng + 1))
            IN  /\ createPrice([storeId |-> cron.stores[cron.i], eggType |-> "brown",
                                price |-> NumberToString(newBrownPrice, 2)])
                /\ rng' = NextRng(rng, 2)
                /\ cron' = [cron EXCEPT !.pc = "saveWhite",
                              !.newWhitePrice = newWhitePrice,
                              !.added = cron.added \cup {priceCurrentId}]
                /\ UNCHANGED <<storesData, storeCurrentId>>
    /\ UNCHANGED <<now, NODE_ENV, req, started, lastSearch, call>>

\* the run goes on without the white price
SaveWhite_NotSaved ==
    /\ cron.pc = "saveWhite"
    /\ cron' = NextStore(cron)
    /\ UNCHANGED <<repo, now, rng, NODE_ENV, req, started, lastSearch, call>>

\* line 69
SaveWhite ==
    /\ cron.pc = "saveWhite"
    /\ createPrice([storeId |-> cron.stores[cron.i], eggType |-> "white",
                    price |-> NumberToString(cron.newWhitePrice, 2)])
    /\ cron' = NextStore([cron EXCEPT !.added = cron.added \cup {priceCurrentId}])
    /\ UNCHANGED <<storesData, storeCurrentId, now, rng, NODE_ENV, req, started,
                   lastSearch, call>>

\* lines 24-26: storage.getStores rejects; the run ends with no store listed
FailRun ==
    /\ cron.pc = "idle"
    /\ cron.runs < MaxRuns
    /\ cron' = [IdleCron EXCEPT !.runs = cron.runs + 1]
    /\ UNCHANGED <<repo, now, rng, NODE_ENV, req, started, lastSearch, call>>

\* the failure of one store ends the run
StoreFailed_EndsRun(c) ==
    [c EXCEPT !.pc = "idle", !.i = 0, !.latestBrownPrice = undefined,
       !.latestWhitePrice = undefined, !.newWhitePrice = 0]

\* lines 72-74, then 19-21: the catch block of updatePricesForStore logs, and
\* the loop of updateEggPrices goes on
StoreFailed(c) == NextStore(c)

\* lines 36, 37, 68, 69: the repository call updatePricesForStore awaits
\* rejects; the variations of lines 45-52 are drawn before the call of line 68
FailStore ==
    /\ \/ cron.pc \in {"readBrown", "readWhite", "saveWhite"}
       \/ /\ cron.pc = "save"
          /\ cron.latestBrownPrice # undefined
          /\ cron.latestWhitePrice # undefined
    /\ LET storeId == cron.stores[cron.i]
       IN  cron' = StoreFailed([cron EXCEPT
                      !.failed = cron.failed \cup {storeId},
                      !.seen = IF cron.pc = "readBrown"
                               THEN Append(cron.seen, storeId) ELSE cron.seen])
    /\ rng' = IF cron.pc = "save" THEN NextRng(rng, 2) ELSE rng
    /\ UNCHANGED <<repo, now, NODE_ENV, req, started, lastSearch, call>>

\* time passes
Tick ==
    /\ now < MaxClock
    /\ now' = now + 1
    /\ UNCHANGED <<repo, rng, NODE_ENV, req, cron, started, lastSearch, call>>

-----------------------------------------------------------------------------
(* Direct calls of the repository's write methods, by a caller other than *)
(* the two handlers                                                       *)

\* what a caller passes to createStore: a record that carries an id
StoreInserts == {
    [id |-> 1, name |-> "Corner Market", address |-> "1 Pine St",
     city |-> "San Francisco", state |-> "CA", zipCode |-> <<"9", "4", "1", "0", "5">>,
     latitude |-> <<"3", "7", ".", "7", "9", "9", "7">>,
     longitude |-> <<"-", "1", "2", "2", ".", "4", "0", "9", "5">>] }

\* what callers pass to createPrice: no store has the id 0 of the first record
\* (storeCurrentId starts at 1), and the second record carries an id and a
\* recordedAt
PriceInserts == {
    [storeId |-> 0, eggType |-> "white", price |-> <<"3", ".", "1">>],
    [id |-> 1, storeId |-> 2, eggType |-> "white", price |-> <<"3", ".", "7", "5">>,
     recordedAt |-> 0 - oneDay] }

\* what callers pass to getStoresWithPrices: ids out of order, an id no store
\* has (0), an id twice, ids of stores a backfill creates
ViewRequests == {
    [storeIds |-> <<2, 0, 1>>, eggType |-> "brown"],
    [storeIds |-> <<5, 4, 4>>, eggType |-> "white"] }

CallCreateStore(insertStore) ==
    /\ started + call.n < MaxRequests
    /\ createStore(insertStore)
    /\ call' = [op |-> "createStore", n |-> call.n + 1, arg |-> insertStore,
                threw |-> FALSE,
                returned |-> NewStore(insertStore, storeCurrentId)]
    /\ UNCHANGED <<pricesData, priceCurrentId, now, rng, NODE_ENV, req, cron, started,
                   lastSearch>>

CallCreatePrice(insertPrice) ==
    /\ started + call.n < MaxRequests
    /\ createPrice(insertPrice)
    /\ call' = [op |-> "createPrice", n |-> call.n + 1, arg |-> insertPrice,
                threw |-> FALSE,
                returned |-> NewPrice(insertPrice, priceCurrentId, now)]
    /\ UNCHANGED <<storesData, storeCurrentId, now, rng, NODE_ENV, req, cron, started,
                   lastSearch>>

\* the postal codes callers resolve: codes of the table, codes of the 8011,
\* 8012, 8013 rule, codes of Florida, and codes of every region of the switch
ZipCodes == {
    <<"9", "4", "1", "0", "5">>, <<"8", "0", "1", "2", "6">>, <<"8", "0", "1", "2", "7">>, <<"8", "0", "1", "3", "7">>,
    <<"3", "3", "1", "0", "0">>, <<"3", "3", "1", "7", "0">>, <<"3", "3", "1", "0", "1">>, <<"3", "4", "1", "0", "1">>,
    <<"9", "9", "9", "9", "9">>, <<"9", "9", "9", "0", "0">>, <<"9", "9", "9", "7", "0">>, <<"9", "9", "2", "0", "0">>,
    <<"9", "9", "9", "0", "1">>, <<"0", "1", "2", "3", "4">>, <<"1", "2", "3", "4", "5">>, <<"2", "3", "4", "5", "6">>,
    <<"3", "0", "3", "0", "1">>, <<"4", "5", "6", "7", "8">>, <<"5", "6", "7", "8", "9">>, <<"6", "7", "8", "9", "0">>,
    <<"7", "8", "9", "0", "1">>, <<"8", "9", "0", "1", "2">>, <<"9", "0", "2", "1", "0">>, <<"9", "6", "0", "0", "0">>,
    <<"9", "2", "0", "0", "0">> }

\* before is the call made before this one, counters the two counters of the
\* repository at the time of the call
CallGetCoordinatesForZipCode(zipCode) ==
    /\ started + call.n < MaxRequests
    /\ call' = [op |-> "getCoordinatesForZipCode", n |-> call.n + 1, arg |-> zipCode,
                threw |-> FALSE, returned |-> getCoordinatesForZipCode(zipCode),
                before |-> call, counters |-> <<storeCurrentId, priceCurrentId>>]
    /\ UNCHANGED <<repo, now, rng, NODE_ENV, req, cron, started, lastSearch>>

CallGetStoresWithPrices(view) ==
    /\ started + call.n < MaxRequests
    /\ call' = [op |-> "getStoresWithPrices", n |-> call.n + 1, arg |-> view,
                threw |-> FALSE,
                returned |-> getStoresWithPrices(view.storeIds, view.eggType)]
    /\ UNCHANGED <<repo, now, rng, NODE_ENV, req, cron, started, lastSearch>>

-----------------------------------------------------------------------------
(* Specifications *)

\* a handler is between two of its awaits; the scheduler is handler 0, a
\* search is its slot
Running(p, r, c) ==
    IF p = 0 THEN c.pc # "idle" ELSE r[p].pc \notin {"idle", "redirected"}

\* a response is on its way to the client; it arrives before anything else
\* happens
Delivering == \E s \in Slots : req[s].pc = "responded"

Deliver ==
    /\ \E s \in Slots : Finish(s)
    /\ turn' = {}
    /\ UNCHANGED <<switches, faults, timer>>

\* p goes on, or takes the thread over from a handler suspended at an await
Take(p, preempt) ==
    /\ ~Delivering
    /\ \/ turn \subseteq {p} /\ UNCHANGED switches
       \/ /\ preempt
          /\ ~(turn \subseteq {p})
          /\ switches < MaxSwitches
          /\ switches' = switches + 1
    /\ turn' = IF Running(p, req', cron') THEN {p} ELSE {}
    /\ UNCHANGED <<faults, timer>>

\* a call that p awaits rejects, and p goes on in its catch block
Reject(p) ==
    /\ ~Delivering
    /\ turn \subseteq {p}
    /\ faults < MaxFaults
    /\ faults' = faults + 1
    /\ turn' = IF Running(p, req', cron') THEN {p} ELSE {}
    /\ UNCHANGED <<switches, timer>>

\* something happens between two handlers, or while one is suspended
Pass(preempt) ==
    /\ ~Delivering
    /\ \/ turn = {} /\ UNCHANGED switches
       \/ /\ preempt
          /\ turn # {}
          /\ switches < MaxSwitches
          /\ switches' = switches + 1
    /\ UNCHANGED <<turn, faults, timer>>

\* Each handler runs from its start to its response without another one in
\* between: every await of the handlers is on a promise that MemStorage or
\* getCoordinatesForZipCode has already resolved.
Next ==
    \/ Deliver
    \/ \E s \in Slots, q \in Queries : Receive(s, q) /\ Take(s, FALSE)
    \/ \E s \in Slots : GetStores(s) /\ Take(s, FALSE)
    \/ \E s \in Slots : Filter(s) /\ Take(s, FALSE)
    \/ \E s \in Slots : CreateDemoStore(s) /\ Take(s, FALSE)
    \/ \E s \in Slots : CreateDemoPrice(s) /\ Take(s, FALSE)
    \/ \E s \in Slots : FollowRedirect(s) /\ Take(s, FALSE)
    \/ \E s \in Slots : GetStoresWithPrices(s) /\ Take(s, FALSE)
    \/ StartRun /\ Take(0, FALSE)
    \/ ReadBrown /\ Take(0, FALSE)
    \/ ReadWhite /\ Take(0, FALSE)
    \/ SaveBrown /\ Take(0, FALSE)
    \/ SaveWhite /\ Take(0, FALSE)
    \/ Tick /\ Pass(FALSE)

Spec == Init /\ [][Next]_vars

\* The handlers interleave at their awaits, as they would over a repository
\* whose promises resolve later.
AwaitNext ==
    \/ Deliver
    \/ \E s \in Slots, q \in Queries : Receive(s, q) /\ Take(s, TRUE)
    \/ \E s \in Slots : GetStores(s) /\ Take(s, TRUE)
    \/ \E s \in Slots : Filter(s) /\ Take(s, TRUE)
    \/ \E s \in Slots : CreateDemoStore(s) /\ Take(s, TRUE)
    \/ \E s \in Slots : CreateDemoPrice(s) /\ Take(s, TRUE)
    \/ \E s \in Slots : FollowRedirect(s) /\ Take(s, TRUE)
    \/ \E s \in Slots : GetStoresWithPrices(s) /\ Take(s, TRUE)
    \/ StartRun /\ Take(0, TRUE)
    \/ ReadBrown /\ Take(0, TRUE)
    \/ ReadWhite /\ Take(0, TRUE)
    \/ SaveBrown /\ Take(0, TRUE)
    \/ SaveWhite /\ Take(0, TRUE)
    \/ Tick /\ Pass(TRUE)

AwaitSpec == Init /\ [][AwaitNext]_vars

\* The interleaved handlers and other callers of the repository's write
\* methods, which call between two handlers; all of it within one
\* millisecond of the clock.
ApiNext ==
    \/ Deliver
    \/ \E s \in Slots, q \in Queries : Receive(s, q) /\ Take(s, TRUE)
    \/ \E s \in Slots : GetStores(s) /\ Take(s, TRUE)
    \/ \E s \in Slots : Filter(s) /\ Take(s, TRUE)
    \/ \E s \in Slots : CreateDemoStore(s) /\ Take(s, TRUE)
    \/ \E s \in Slots : CreateDemoPrice(s) /\ Take(s, TRUE)
    \/ \E s \in Slots : FollowRedirect(s) /\ Take(s, TRUE)
    \/ \E s \in Slots : GetStoresWithPrices(s) /\ Take(s, TRUE)
    \/ StartRun /\ Take(0, TRUE)
    \/ ReadBrown /\ Take(0, TRUE)
    \/ ReadWhite /\ Take(0, TRUE)
    \/ SaveBrown /\ Take(0, TRUE)
    \/ SaveWhite /\ Take(0, TRUE)
    \/ \E insertStore \in StoreInserts : CallCreateStore(insertStore) /\ Pass(FALSE)
    \/ \E insertPrice \in PriceInserts : CallCreatePrice(insertPrice) /\ Pass(FALSE)
    \/ \E view \in ViewRequests : CallGetStoresWithPrices(view) /\ Pass(FALSE)

ApiSpec == Init /\ [][ApiNext]_vars

\* The three routes and the scheduler, each handler run to completion, over a
\* repository whose calls may reject.
FaultNext ==
    \/ Deliver
    \/ \E s \in Slots, q \in Queries : Receive(s, q) /\ Take(s, FALSE)
    \/ \E s \in Slots : GetStores(s) /\ Take(s, FALSE)
    \/ \E s \in Slots : Filter(s) /\ Take(s, FALSE)
    \/ \E s \in Slots : CreateDemoStore(s) /\ Take(s, FALSE)
    \/ \E s \in Slots : CreateDemoPrice(s) /\ Take(s, FALSE)
    \/ \E s \in Slots : FollowRedirect(s) /\ Take(s, FALSE)
    \/ \E s \in Slots : GetStoresWithPrices(s) /\ Take(s, FALSE)
    \/ \E s \in Slots, q \in StoreQueries : ReceiveStorePrices(s, q) /\ Take(s, FALSE)
    \/ \E s \in Slots, storeId \in StoreIds : ReceiveStore(s, storeId) /\ Take(s, FALSE)
    \/ \E s \in Slots : GetStore(s) /\ Take(s, FALSE)
    \/ \E s \in Slots : GetPricesByStoreId(s) /\ Take(s, FALSE)
    \/ \E s \in Slots : GetBrownPrice(s) /\ Take(s, FALSE)
    \/ \E s \in Slots : GetWhitePrice(s) /\ Take(s, FALSE)
    \/ \E s \in Slots : Throw(s) /\ Reject(s)
    \/ StartRun /\ Take(0, FALSE)
    \/ ReadBrown /\ Take(0, FALSE)
    \/ ReadWhite /\ Take(0, FALSE)
    \/ SaveBrown /\ Take(0, FALSE)
    \/ SaveWhite /\ Take(0, FALSE)
    \/ FailRun /\ Reject(0)
    \/ FailStore /\ Reject(0)
    \/ Tick /\ Pass(FALSE)

FaultSpec == Init /\ [][FaultNext]_vars

\* The searches and the scheduler, each run to completion, and callers that
\* resolve postal codes between them.
GeoNext ==
    \/ Deliver
    \/ \E s \in Slots, q \in Queries : Receive(s, q) /\ Take(s, FALSE)
    \/ \E s \in Slots : GetStores(s) /\ Take(s, FALSE)
    \/ \E s \in Slots : Filter(s) /\ Take(s, FALSE)
    \/ \E s \in Slots : CreateDemoStore(s) /\ Take(s, FALSE)
    \/ \E s \in Slots : CreateDemoPrice(s) /\ Take(s, FALSE)
    \/ \E s \in Slots : FollowRedirect(s) /\ Take(s, FALSE)
    \/ \E s \in Slots : GetStoresWithPrices(s) /\ Take(s, FALSE)
    \/ StartRun /\ Take(0, FALSE)
    \/ ReadBrown /\ Take(0, FALSE)
    \/ ReadWhite /\ Take(0, FALSE)
    \/ SaveBrown /\ Take(0, FALSE)
    \/ SaveWhite /\ Take(0, FALSE)
    \/ Tick /\ Pass(FALSE)
    \/ \E zipCode \in ZipCodes : CallGetCoordinatesForZipCode(zipCode) /\ Pass(FALSE)

GeoSpec == Init /\ [][GeoNext]_vars

------------------------------------------------------------------------------
(* The scheduler after the runs that are followed step by step              *)

\* lines 44-45, 48-52, 58 and 64: parseFloat of the latest price, the
\* variation, Math.round to cents, toString
newPriceString(price, r) == NumberToString(Perturb(StringToNumber(price, 2), r), 2)

\* the latest prices a run reads: one per store and variant that has one
LatestPrices ==
    {getLatestPriceByStore(storeId, eggType)[1].price :
        <<storeId, eggType>> \in {x \in (DOMAIN storesData) \X {"brown", "white"} :
                                    getLatestPriceByStore(x[1], x[2]) # undefined}}

\* One more run of the scheduler, for one store and one variant: it reads as
\* latest the price the run before it saved (lines 36-37) and saves the
\* perturbed price (lines 44-69). The runs go on every 24 hours without end;
\* they are followed here once the searches, the runs and the clock that are
\* modelled step by step are over, and as long as they do not raise the price.
LaterRun(r) ==
    /\ started = MaxRequests
    /\ cron.pc = "idle"
    /\ cron.runs = MaxRuns
    /\ now = MaxClock
    /\ \E latest \in (IF call.op = "updatePricesForStore" THEN {call.returned}
                       ELSE LatestPrices) :
          /\ StringToNumber(newPriceString(latest, r), 2) <= StringToNumber(latest, 2)
          /\ call' = [op |-> "updatePricesForStore", n |-> call.n, arg |-> latest,
                      threw |-> FALSE, returned |-> newPriceString(latest, r)]
    /\ UNCHANGED <<repo, now, rng, NODE_ENV, req, cron, started, lastSearch>>

\* The searches and the scheduler, each run to completion, and the scheduler's
\* later runs.
PriceNext ==
    \/ Deliver
    \/ \E s \in Slots, q \in Queries : Receive(s, q) /\ Take(s, FALSE)
    \/ \E s \in Slots : GetStores(s) /\ Take(s, FALSE)
    \/ \E s \in Slots : Filter(s) /\ Take(s, FALSE)
    \/ \E s \in Slots : CreateDemoStore(s) /\ Take(s, FALSE)
    \/ \E s \in Slots : CreateDemoPrice(s) /\ Take(s, FALSE)
    \/ \E s \in Slots : FollowRedirect(s) /\ Take(s, FALSE)
    \/ \E s \in Slots : GetStoresWithPrices(s) /\ Take(s, FALSE)
    \/ StartRun /\ Take(0, FALSE)
    \/ ReadBrown /\ Take(0, FALSE)
    \/ ReadWhite /\ Take(0, FALSE)
    \/ SaveBrown /\ Take(0, FALSE)
    \/ SaveWhite /\ Take(0, FALSE)
    \/ Tick /\ Pass(FALSE)
    \/ \E i \in 1..Len(RandomStream) : LaterRun(RandomStream[i]) /\ Pass(FALSE)

PriceSpec == Init /\ [][PriceNext]_vars

------------------------------------------------------------------------------
(* server/cron and server/routes: the interval of the scheduler *)

TWENTY_FOUR_HOURS == 24 * 60 * 60 * 1000

\* the timer is left armed when the server closes
Close_NotCleared ==
    /\ timer.registered
    /\ ~timer.closed
    /\ timer' = [timer EXCEPT !.closed = TRUE, !.closedAt = timer.periods]
    /\ UNCHANGED <<repo, now, rng, NODE_ENV, req, cron, started, lastSearch, call, turn,
                   switches, faults>>

\* routes.ts line 10 and cron.ts lines 81-89: registerRoutes calls
\* scheduleDailyPriceUpdates, which calls updateEggPrices and arms the interval
scheduleDailyPriceUpdates ==
    /\ ~timer.registered
    /\ turn = {}
    /\ updateEggPrices
    /\ timer' = [timer EXCEPT !.registered = TRUE, !.armed = TRUE]
    /\ turn' = IF Running(0, req', cron') THEN {0} ELSE {}
    /\ UNCHANGED <<now, switches, faults>>

\* 24 hours pass; an armed interval becomes due
Elapse ==
    /\ timer.registered
    /\ ~timer.due
    /\ timer.periods < MaxPeriods
    /\ turn = {}
    /\ now' = now + TWENTY_FOUR_HOURS
    /\ timer' = [timer EXCEPT !.periods = timer.periods + 1, !.due = timer.armed]
    /\ UNCHANGED <<repo, rng, NODE_ENV, req, cron, started, lastSearch, call, turn,
                   switches, faults>>

\* cron.ts line 88: the interval calls updateEggPrices
Fire ==
    /\ timer.armed
    /\ timer.due
    /\ turn = {}
    /\ updateEggPrices
    /\ timer' = [timer EXCEPT !.due = FALSE, !.fired = timer.fired + 1]
    /\ turn' = IF Running(0, req', cron') THEN {0} ELSE {}
    /\ UNCHANGED <<now, switches, faults>>

\* routes.ts lines 281-283: the server emits close, the handler clears the
\* interval
Close ==
    /\ timer.registered
    /\ ~timer.closed
    /\ turn = {}
    /\ timer' = [timer EXCEPT !.closed = TRUE, !.closedAt = timer.periods,
                               !.armed = FALSE, !.due = FALSE]
    /\ UNCHANGED <<repo, now, rng, NODE_ENV, req, cron, started, lastSearch, call, turn,
                   switches, faults>>

\* A server from registerRoutes to after its close: the scheduler and the
\* searches the server takes while it is open. Every run and every handler
\* goes to its end before the interval or the server can do anything else.
TimerNext ==
    \/ scheduleDailyPriceUpdates
    \/ Deliver
    \/ \E s \in Slots, q \in Queries :
          timer.registered /\ ~timer.closed /\ Receive(s, q) /\ Take(s, FALSE)
    \/ \E s \in Slots : GetStores(s) /\ Take(s, FALSE)
    \/ \E s \in Slots : Filter(s) /\ Take(s, FALSE)
    \/ \E s \in Slots : CreateDemoStore(s) /\ Take(s, FALSE)
    \/ \E s \in Slots : CreateDemoPrice(s) /\ Take(s, FALSE)
    \/ \E s \in Slots : FollowRedirect(s) /\ Take(s, FALSE)
    \/ \E s \in Slots : GetStoresWithPrices(s) /\ Take(s, FALSE)
    \/ ReadBrown /\ Take(0, FALSE)
    \/ ReadWhite /\ Take(0, FALSE)
    \/ SaveBrown /\ Take(0, FALSE)
    \/ SaveWhite /\ Take(0, FALSE)
    \/ Elapse
    \/ Fire
    \/ Close

TimerSpec == Init /\ [][TimerNext]_vars


-----------------------------------------------------------------------------
(* Properties *)

\* the searches whose result the client is about to receive
Results == {s \in Slots : /\ req[s].pc = "responded"
                           /\ req[s].route = "/api/prices"
                           /\ req[s].response.status = 200}

\* the prices the repository holds at construction
SamplePrices == NumSampleStores * (2 + 2 * HistoryDays)

\* the observations of one store and variant
Observations(storeId, eggType) ==
    {pricesData[id] : id \in {i \in DOMAIN pricesData :
                                /\ pricesData[i].storeId = storeId
                                /\ pricesData[i].eggType = eggType}}

\* the distance in 1e-3 miles between the coordinate the postal code of search
\* s resolves to and the store id
DistanceFrom(s, id) ==
    LET center == getCoordinatesForZipCode(req[s].zipCode)[1]
    IN  calculateDistance(center.lat, center.lng,
                          StringToNumber(storesData[id].latitude, 4),
                          StringToNumber(storesData[id].longitude, 4))

\* the stores at most radius + 0.5 miles from the centre of search s
WithinSearch(s) ==
    {id \in DOMAIN storesData : DistanceFrom(s, id) <= req[s].radius * 1000 + 500}

\* C1: a createPrice call whose storeId names no store of the repository
\* signals an error and leaves the repository as it was: no observation is
\* added and priceCurrentId does not advance.
C1_UnknownStoreRejected ==
    [][(/\ call'.n = call.n + 1
        /\ call'.op = "createPrice"
        /\ call'.arg.storeId \notin DOMAIN storesData)
       => (call'.threw /\ repo' = repo)]_vars

\* C2: in every state reached from construction by searches (with or without
\* backfill) and scheduler runs, the storeId of every price observation is the
\* id of a store of the repository.
C2_PricesReferToStores ==
    \A id \in DOMAIN pricesData : pricesData[id].storeId \in DOMAIN storesData

\* a backfill and a scheduler run have both written prices
C2_Witness ==
    /\ \E id \in DOMAIN pricesData : pricesData[id].storeId > NumSampleStores
    /\ cron.runs > 0
    /\ cron.pc = "idle"
    /\ priceCurrentId > SamplePrices + 6

\* C3: the repository assigns the ids of stores and of price observations:
\* they are the successive values of its counters, so every record is stored
\* under its own id, a new id is above every id assigned before it, no id
\* occurs twice or again, and an id in the caller's insert record is not used;
\* this holds however the searches and the scheduler interleave.
C3_IdsAssignedByRepository ==
    /\ [](/\ DOMAIN storesData = 1..(storeCurrentId - 1)
          /\ DOMAIN pricesData = 1..(priceCurrentId - 1)
          /\ \A id \in DOMAIN storesData : storesData[id].id = id
          /\ \A id \in DOMAIN pricesData : pricesData[id].id = id)
    /\ [][/\ storeCurrentId' >= storeCurrentId
          /\ priceCurrentId' >= priceCurrentId
          /\ \A id \in DOMAIN storesData' \ DOMAIN storesData :
                \A old \in DOMAIN storesData : old < id
          /\ \A id \in DOMAIN pricesData' \ DOMAIN pricesData :
                \A old \in DOMAIN pricesData : old < id]_vars

\* a caller passed an id to createStore and got another one, after a search
\* that was suspended at an await and a scheduler run
C3_Witness ==
    /\ call.op = "createStore"
    /\ "id" \in DOMAIN call.arg
    /\ call.returned.id # call.arg.id
    /\ switches > 0
    /\ cron.runs > 0
    /\ storeCurrentId > NumSampleStores + 2

\* C4: the repository only ever gains records: a store or a price observation
\* that exists stays, with every field (recordedAt too) as it was, whatever
\* search, backfill, scheduler run or repository call comes later.
C4_AppendOnly ==
    [][/\ \A id \in DOMAIN storesData :
             id \in DOMAIN storesData' /\ storesData'[id] = storesData[id]
       /\ \A id \in DOMAIN pricesData :
             id \in DOMAIN pricesData' /\ pricesData'[id] = pricesData[id]]_vars

\* a caller's createPrice, a backfill and a scheduler run have all written
C4_Witness ==
    /\ call.op = "createPrice"
    /\ "recordedAt" \in DOMAIN call.arg
    /\ call.returned.recordedAt # call.arg.recordedAt
    /\ cron.runs > 0
    /\ cron.pc = "idle"
    /\ storeCurrentId > NumSampleStores + 3
    /\ priceCurrentId > SamplePrices + 7

\* currentPrice is the price of a latest observation of the store and variant,
\* and null when there is none
IsCurrentPrice(currentPrice, storeId, eggType) ==
    LET obs == Observations(storeId, eggType)
    IN  IF obs = {} THEN currentPrice = null
        ELSE /\ currentPrice # null
             /\ \E p \in obs :
                  /\ \A q \in obs : q.recordedAt <= p.recordedAt
                  /\ StringToNumber(p.price, 2) = currentPrice[1]

\* C5: for every store and variant, getLatestPriceByStore returns an
\* observation of that store and variant with the greatest recordedAt, and
\* nothing exactly when there is no such observation; the currentPrice of
\* getStoresWithPrices, and of every store in a search result, is the price
\* of such an observation, and null exactly when there is none.
C5_CurrentPriceIsLatest ==
    /\ \A storeId \in DOMAIN storesData, eggType \in {"brown", "white"} :
          LET obs == Observations(storeId, eggType)
              latest == getLatestPriceByStore(storeId, eggType)
              views == getStoresWithPrices(<<storeId>>, eggType)
          IN  /\ (latest = undefined) <=> (obs = {})
              /\ latest # undefined =>
                    /\ latest[1] \in obs
                    /\ \A q \in obs : q.recordedAt <= latest[1].recordedAt
              /\ Len(views) = 1
              /\ IsCurrentPrice(views[1].currentPrice, storeId, eggType)
    /\ \A s \in Results :
          \A i \in 1..Len(req[s].response.stores) :
              IsCurrentPrice(req[s].response.stores[i].currentPrice,
                             req[s].response.stores[i].id, req[s].eggType)

\* a result shows a store that has observations of the variant at several
\* times and at several prices, one of them written by the scheduler
C5_Witness ==
    \E s \in Results :
        \E i \in 1..Len(req[s].response.stores) :
            LET obs == Observations(req[s].response.stores[i].id, req[s].eggType)
            IN  /\ \E p, q \in obs : p.recordedAt < q.recordedAt /\ p.price # q.price
                /\ \E p \in obs : p.id > SamplePrices /\ p.recordedAt > 0

\* C6: in every search result, minPrice and maxPrice are the least and the
\* greatest non-null currentPrice of the returned stores, and both are null
\* (not zero) when no store is returned or no returned store has a price.
C6_EnvelopeMinMax ==
    \A s \in Results :
        LET r == req[s].response
            priced == {i \in 1..Len(r.stores) : r.stores[i].currentPrice # null}
        IN  IF priced = {}
            THEN r.minPrice = null /\ r.maxPrice = null
            ELSE /\ r.minPrice # null
                 /\ r.maxPrice # null
                 /\ \A i \in priced :
                       /\ r.minPrice[1] <= r.stores[i].currentPrice[1]
                       /\ r.stores[i].currentPrice[1] <= r.maxPrice[1]
                 /\ \E i \in priced : r.stores[i].currentPrice[1] = r.minPrice[1]
                 /\ \E i \in priced : r.stores[i].currentPrice[1] = r.maxPrice[1]

\* a result returns stores of which none has a price yet
C6_Witness ==
    \E s \in Results :
        /\ Len(req[s].response.stores) > 0
        /\ \A i \in 1..Len(req[s].response.stores) :
              req[s].response.stores[i].currentPrice = null

\* C7: a search that finds a store returns exactly the stores of the
\* repository at most radius + 0.5 miles from the coordinate its postal code
\* resolves to, each once, whatever postal code the store carries.
C7_ExactlyStoresInRadius ==
    \A s \in Results :
        LET stores == req[s].response.stores
        IN  Len(stores) > 0 =>
               /\ {stores[i].id : i \in 1..Len(stores)} = WithinSearch(s)
               /\ Len(stores) = Cardinality(WithinSearch(s))

\* a result returns a store of another postal code that is farther than the
\* radius but inside the buffer, and leaves out a store of the repository
C7_Witness ==
    \E s \in Results :
        LET stores == req[s].response.stores
        IN  /\ \E i \in 1..Len(stores) :
                  /\ storesData[stores[i].id].zipCode # req[s].zipCode
                  /\ DistanceFrom(s, stores[i].id) > req[s].radius * 1000
            /\ \E id \in DOMAIN storesData :
                  id \notin {stores[i].id : i \in 1..Len(stores)}

\* C8: in development, a search for a valid postal code and a radius in 1..20
\* with no store inside the radius ends with a result of exactly the three
\* synthetic vendors of the backfill, each with a non-null currentPrice.
C8_BackfillShowsThreeVendors ==
    \A s \in Results :
        req[s].backfilled =>
            LET stores == req[s].response.stores
            IN  /\ Len(stores) = 3
                /\ {stores[i].name : i \in 1..Len(stores)} =
                      {"Local Grocery", "Farmers Market", "Organic Essentials"}
                /\ \A i \in 1..Len(stores) : stores[i].currentPrice # null

\* C9: outside development, a valid search with no store inside the radius
\* (buffer included) is answered with status 200, stores = [], minPrice = null
\* and maxPrice = null, and no step of a search creates a store or a price.
C9_EmptyResultOutsideDevelopment ==
    /\ [](\A s \in Slots :
            (/\ NODE_ENV # "development"
             /\ req[s].pc = "responded"
             /\ req[s].zipCode # <<>>
             /\ WithinSearch(s) = {})
            => /\ req[s].response.status = 200
               /\ req[s].response.stores = <<>>
               /\ req[s].response.minPrice = null
               /\ req[s].response.maxPrice = null)
    /\ [][(NODE_ENV # "development" /\ req' # req)
          => (storesData' = storesData /\ storeCurrentId' = storeCurrentId
              /\ pricesData' = pricesData /\ priceCurrentId' = priceCurrentId)]_vars

\* outside development a search with no store in reach has its empty result
C9_Witness ==
    \E s \in Results :
        /\ NODE_ENV = "production"
        /\ WithinSearch(s) = {}
        /\ req[s].response.stores = <<>>
        /\ storeCurrentId = NumSampleStores + 1

\* C10: after a search that backfilled a postal code, a later search with the
\* same postal code, radius and variant returns the same number of vendors
\* with the same names and coordinates, and the repository holds as many
\* stores of that postal code as after the first search.
C10_RepeatedSearchSameVendors ==
    \A s \in Results :
        (lastSearch.backfilled /\ lastSearch.asked = req[s].asked) =>
            /\ Shape(req[s].response.stores) = lastSearch.shape
            /\ ZipStores(req[s].zipCode) = lastSearch.zipStores

\* the second search of a postal code that the first one backfilled has its
\* result, without a backfill of its own
C10_Witness ==
    \E s \in Results :
        /\ lastSearch.backfilled
        /\ lastSearch.asked = req[s].asked
        /\ ~req[s].backfilled
        /\ Len(req[s].response.stores) >= 2

\* the stores of a postal code that a backfill created under the name
Synthetic(zipCode, name) ==
    {id \in DOMAIN storesData : /\ storesData[id].zipCode = zipCode
                                /\ storesData[id].name = name}

\* C11: when two searches for the same postal code with no store in reach
\* interleave at their awaits, both backfill, and the repository then holds
\* the synthetic vendors of that postal code twice (six stores, not three);
\* the vendors never exist twice unless a search was suspended at an await
\* while another handler ran.
C11_DoubleBackfillNeedsInterleaving ==
    \A q \in Queries :
        (\/ Cardinality(Synthetic(q.zipCode, "Local Grocery")) > 1
         \/ Cardinality(Synthetic(q.zipCode, "Farmers Market")) > 1
         \/ Cardinality(Synthetic(q.zipCode, "Organic Essentials")) > 1)
        => switches > 0

\* both searches have backfilled the postal code: each synthetic vendor exists
\* twice, and the postal code has six stores
C11_Witness ==
    \E q \in Queries :
        /\ Cardinality(Synthetic(q.zipCode, "Local Grocery")) = 2
        /\ Cardinality(Synthetic(q.zipCode, "Farmers Market")) = 2
        /\ Cardinality(Synthetic(q.zipCode, "Organic Essentials")) = 2
        /\ ZipStores(q.zipCode) = 6
        /\ \A s \in Slots : req[s].pc = "redirected" /\ req[s].zipCode = q.zipCode

\* the message of the first check a query fails, in the order postal code,
\* radius, variant; "" when it passes all three
FirstFailure(q) ==
    LET radius == parseInt(IF q.radius = <<>> THEN <<"5">> ELSE q.radius)
        eggType == toLowerCase(IF q.eggType = "" THEN "brown" ELSE q.eggType)
    IN  IF ~(Len(q.zipCode) = 5 /\ \A i \in 1..5 : IsDigit(q.zipCode[i]))
        THEN "Invalid zip code. Must be 5 digits."
        ELSE IF radius = NaN \/ radius[1] < 1 \/ radius[1] > 20
        THEN "Invalid radius. Must be between 1 and 20 miles."
        ELSE IF eggType \notin {"white", "brown"}
        THEN "Invalid egg type. Must be 'white' or 'brown'."
        ELSE ""

\* C12: a search whose postal code is not exactly five digits, whose radius
\* is outside 1..20 or whose variant is not white or brown is answered with
\* status 400 and the message of the first field that fails, in the order
\* postal code, radius, variant; the rejection is the handler's first step,
\* before it has read the store list or written to the repository, and a
\* search that passes the three checks is never answered with 400.
C12_RejectedInOrderBeforeRepository ==
    /\ [](\A s \in Slots :
            (req[s].route = "/api/prices" /\ req[s].pc # "idle") =>
                IF FirstFailure(req[s].asked) # ""
                THEN /\ req[s].pc = "responded"
                     /\ req[s].response =
                           [status |-> 400, message |-> FirstFailure(req[s].asked)]
                ELSE req[s].response.status # 400)
    /\ [][\A s \in Slots :
            (/\ req'[s].route = "/api/prices"
             /\ req'[s].pc = "responded"
             /\ req[s].pc # "responded"
             /\ req'[s].response.status = 400)
            => /\ req[s].pc = "idle"
               /\ req'[s].allStores = <<>>
               /\ repo' = repo]_vars

\* a search with a good postal code that fails the radius and the variant
\* checks is answered for its radius
C12_Witness ==
    \E s \in Slots :
        /\ req[s].pc = "responded"
        /\ req[s].route = "/api/prices"
        /\ req[s].asked.zipCode = <<"9", "9", "9", "9", "9">>
        /\ req[s].asked.radius = <<"2", "1">>
        /\ req[s].asked.eggType = "green"
        /\ req[s].response =
              [status |-> 400,
               message |-> "Invalid radius. Must be between 1 and 20 miles."]

\* the radius parameter, as the client sent it, is the decimal numeral of an
\* integer in 1..20
IntegerInRange(radius) ==
    /\ radius # <<>>
    /\ \A i \in 1..Len(radius) : IsDigit(radius[i])
    /\ DigitsToNat(radius) >= 1
    /\ DigitsToNat(radius) <= 20

\* C13: a search is accepted only if the radius parameter the client sent is
\* an integer in 1..20: a search sent with any other radius (a non-integer
\* such as 5.7, a number followed by other characters, a non-number) is
\* answered with status 400 and goes no further.
C13_OnlyIntegerRadiusAccepted ==
    \A s \in Slots :
        (/\ req[s].route = "/api/prices"
         /\ req[s].pc # "idle"
         /\ req[s].asked.radius # <<>>
         /\ ~IntegerInRange(req[s].asked.radius))
        => /\ req[s].pc = "responded"
           /\ req[s].response.status = 400

\* C14: every /api/prices request is answered in a single pass: the one
\* response of the handler is the result envelope (status 200) or a terminal
\* error (status 400 or 500), and never asks the client to send the request
\* again.
C14_AnsweredInSinglePass ==
    \A s \in Slots :
        req[s].route = "/api/prices" =>
            /\ req[s].pc # "redirected"
            /\ req[s].response.status \in {0, 200, 400, 500}

\* C15: when a call of the repository rejects while /api/prices,
\* /api/stores/:storeId/prices or /api/stores/:storeId is handled, the handler
\* catches it and answers with status 500 and the generic message; that is
\* the only response of the request, and the handler ends with it.
C15_FaultsAnsweredWith500 ==
    /\ [](\A s \in Slots :
            req[s].threw =>
                /\ req[s].pc = "responded"
                /\ req[s].response =
                      [status |-> 500,
                       message |-> "Error processing your request. Please try again later."])
    /\ [][\A s \in Slots :
            /\ (faults' # faults /\ req'[s] # req[s]) =>
                   /\ req[s].response = NoResponse
                   /\ req'[s].threw
                   /\ req'[s].route = req[s].route
            /\ req[s].pc = "responded" => req'[s] \in {req[s], IdleReq}]_vars

\* a search is answered with 500 after its backfill had stored a vendor
C15_Witness ==
    \E s \in Slots :
        /\ req[s].route = "/api/prices"
        /\ req[s].threw
        /\ req[s].pc = "responded"
        /\ req[s].response.status = 500
        /\ storeCurrentId > NumSampleStores + 1

\* the store a storeId parameter names: the handler reads the id of a store
\* of the repository from it
NamedStore(param) ==
    {id \in DOMAIN storesData : parseInt(param) = Some(id)}

\* C16: GET /api/stores/:storeId/prices answers 400 when the variant is
\* neither white nor brown, 404 when the storeId names no store, and else 200
\* with exactly the observations of that store and variant, each once, oldest
\* first; no step of the handler changes the repository.
C16_PriceHistoryOldestFirst ==
    /\ [](\A s \in Slots :
            (/\ req[s].route = "/api/stores/:storeId/prices"
             /\ req[s].pc = "responded"
             /\ ~req[s].threw) =>
                LET r == req[s].response
                    eggType == toLowerCase(IF req[s].asked.eggType = "" THEN "brown"
                                           ELSE req[s].asked.eggType)
                    named == NamedStore(req[s].param)
                IN  IF eggType \notin {"white", "brown"} THEN r.status = 400
                    ELSE IF named = {} THEN r.status = 404
                    ELSE /\ r.status = 200
                         /\ \A id \in named :
                               /\ {r.prices[i] : i \in 1..Len(r.prices)} =
                                     Observations(id, eggType)
                               /\ Len(r.prices) = Cardinality(Observations(id, eggType))
                         /\ \A i, j \in 1..Len(r.prices) :
                               i < j => r.prices[i].recordedAt <= r.prices[j].recordedAt)
    /\ [][\A s \in Slots :
            (req'[s].route = "/api/stores/:storeId/prices" /\ req'[s] # req[s])
            => repo' = repo]_vars

\* a history of at least three observations at two times or more is returned
C16_Witness ==
    \E s \in Slots :
        /\ req[s].route = "/api/stores/:storeId/prices"
        /\ req[s].pc = "responded"
        /\ req[s].response.status = 200
        /\ Len(req[s].response.prices) >= 3
        /\ req[s].response.prices[1].recordedAt
              < req[s].response.prices[Len(req[s].response.prices)].recordedAt

\* C17: GET /api/stores/:storeId answers 404 when the storeId names no
\* store, and else 200 with the fields of the store and, under prices, for
\* brown and for white the price of the latest observation of the store and
\* variant, or null when the store has no observation of the variant.
C17_StoreDetailsLatestOrNull ==
    \A s \in Slots :
        (/\ req[s].route = "/api/stores/:storeId"
         /\ req[s].pc = "responded"
         /\ ~req[s].threw) =>
            LET r == req[s].response
                named == NamedStore(req[s].param)
            IN  IF named = {} THEN r.status = 404
                ELSE /\ r.status = 200
                     /\ \A id \in named :
                           /\ DOMAIN r.body = DOMAIN storesData[id] \cup {"prices"}
                           /\ \A k \in DOMAIN storesData[id] :
                                 r.body[k] = storesData[id][k]
                           /\ DOMAIN r.body.prices = {"brown", "white"}
                           /\ IsCurrentPrice(r.body.prices.brown, id, "brown")
                           /\ IsCurrentPrice(r.body.prices.white, id, "white")

\* the details of a store that has a brown price and no white one
C17_Witness ==
    \E s \in Slots :
        /\ req[s].route = "/api/stores/:storeId"
        /\ req[s].pc = "responded"
        /\ req[s].response.status = 200
        /\ req[s].response.body.prices.brown # null
        /\ req[s].response.body.prices.white = null

\* C18: getStoresWithPrices(storeIds, eggType) returns one view for each
\* element of storeIds that is the id of a store, in the order of storeIds,
\* and nothing for the other elements; the priceHistory of each view holds
\* exactly the observations of that store and variant, each once, newest
\* first.
C18_ViewsInOrderOfIds ==
    [][(call'.n = call.n + 1 /\ call'.op = "getStoresWithPrices") =>
          LET views == call'.returned
              eggType == call'.arg.eggType
              known == SelectSeq(call'.arg.storeIds,
                                 LAMBDA id : id \in DOMAIN storesData)
          IN  /\ Len(views) = Len(known)
              /\ \A i \in 1..Len(known) :
                    LET history == views[i].priceHistory
                    IN  /\ views[i].id = known[i]
                        /\ views[i].name = storesData[known[i]].name
                        /\ {history[j] : j \in 1..Len(history)} =
                              Observations(known[i], eggType)
                        /\ Len(history) = Cardinality(Observations(known[i], eggType))
                        /\ \A j, k \in 1..Len(history) :
                              j < k => history[j].recordedAt >= history[k].recordedAt]_vars

\* a call with ids out of order, one of them unknown, returned two views
\* with histories that a scheduler run has added to
C18_Witness ==
    /\ call.op = "getStoresWithPrices"
    /\ call.arg.storeIds = <<2, 0, 1>>
    /\ Len(call.returned) = 2
    /\ call.returned[1].id = 2
    /\ Len(call.returned[1].priceHistory) > 1 + HistoryDays

\* a scheduler run has gone through its list of stores
RunCompleted == cron.pc = "idle" /\ cron.runs > 0

\* the observations of the store and variant that the run appended
Appended(storeId, eggType) ==
    {id \in cron.added : /\ pricesData[id].storeId = storeId
                         /\ pricesData[id].eggType = eggType}

HadBoth(storeId) ==
    {<<storeId, "brown">>, <<storeId, "white">>} \subseteq cron.had

\* C20: in a scheduler run, the update of a store that is skipped for want of
\* a baseline price, or given up because a call of the repository rejected,
\* is followed by the update of the next store of the list, or by the end of
\* the run when it was the last; so a completed run has gone to every store
\* listed at its start and has appended one observation of each variant for
\* every store that had both baselines and did not fail.
C20_RunGoesOnAfterSkipOrFailure ==
    /\ [](RunCompleted =>
            /\ cron.seen = cron.stores
            /\ \A i \in 1..Len(cron.stores) :
                  (cron.stores[i] \notin cron.failed /\ HadBoth(cron.stores[i])) =>
                      /\ Cardinality(Appended(cron.stores[i], "brown")) = 1
                      /\ Cardinality(Appended(cron.stores[i], "white")) = 1)
    /\ [][(/\ cron.pc # "idle"
           /\ cron' # cron
           /\ \/ faults' # faults
              \/ /\ cron.pc = "save"
                 /\ \/ cron.latestBrownPrice = undefined
                    \/ cron.latestWhitePrice = undefined)
          => IF cron.i < Len(cron.stores)
             THEN /\ cron'.pc = "readBrown"
                  /\ cron'.i = cron.i + 1
                  /\ cron'.stores = cron.stores
             ELSE /\ cron'.pc = "idle"
                  /\ cron'.stores = cron.stores
                  /\ cron'.seen = cron.stores]_vars

\* a run has completed in which the update of a store failed and a store
\* later in the list was updated
C20_Witness ==
    /\ RunCompleted
    /\ \E i, j \in 1..Len(cron.stores) :
          /\ i < j
          /\ cron.stores[i] \in cron.failed
          /\ Cardinality(Appended(cron.stores[j], "brown")) = 1
          /\ Cardinality(Appended(cron.stores[j], "white")) = 1

\* a run has completed in which a store was skipped for want of a baseline
\* price and another store was updated
C20_SkipReached ==
    /\ RunCompleted
    /\ cron.failed = {}
    /\ \E i, j \in 1..Len(cron.stores) :
          /\ ~HadBoth(cron.stores[i])
          /\ Cardinality(Appended(cron.stores[j], "white")) = 1

\* the last two calls were calls of getCoordinatesForZipCode
TwoResolved ==
    /\ call.op = "getCoordinatesForZipCode"
    /\ call.before.op = "getCoordinatesForZipCode"

C23_ResolveTotal ==
    /\ call.op = "getCoordinatesForZipCode" =>
          /\ call.returned # null
          /\ DOMAIN call.returned[1] = {"lat", "lng"}
    /\ \A s \in Slots :
          (req[s].route = "/api/prices" /\ req[s].response.status = 400) =>
              /\ req[s].response.message #
                    "Could not find coordinates for the provided zip code."
              /\ FirstFailure(req[s].asked) # ""

\* a postal code outside the table and the 8011, 8012, 8013 rule has been
\* resolved by a caller, and a search for another such code has its result
C23_Witness ==
    /\ call.op = "getCoordinatesForZipCode"
    /\ call.arg \notin DOMAIN zipCoordinates
    /\ call.arg[1] # "8"
    /\ call.returned # null
    /\ \E s \in Results : req[s].zipCode \notin DOMAIN zipCoordinates

\* the regional anchor of a postal code that the table does not list: the
\* coordinates its offsets are added to
Anchor(zipCode) ==
    IF \/ startsWith(zipCode, <<"8", "0", "1", "2">>)
       \/ startsWith(zipCode, <<"8", "0", "1", "3">>)
       \/ startsWith(zipCode, <<"8", "0", "1", "1">>)
    THEN zipCoordinates[<<"8", "0", "1", "2", "6">>]
    ELSE IF startsWith(zipCode, <<"3", "3">>) THEN Coord(262000, -803000)
    ELSE IF startsWith(zipCode, <<"3", "4">>) THEN Coord(281000, -824000)
    ELSE RegionBase(zipCode)

\* C24: two different five-digit postal codes that the table does not list
\* and that share the same regional anchor are resolved to different
\* coordinates.
C24_SameAnchorDistinctPoints ==
    (/\ TwoResolved
     /\ call.arg # call.before.arg
     /\ call.arg \notin DOMAIN zipCoordinates
     /\ call.before.arg \notin DOMAIN zipCoordinates
     /\ Anchor(call.arg) = Anchor(call.before.arg))
    => call.returned # call.before.returned

\* C25: the price p' of an observation that a scheduler run appends is
\* within 5% of the latest price p the run read for that store and variant,
\* rounded to whole cents: 0.95 * p - 0.005 <= p' <= 1.05 * p + 0.005 (here
\* in cents, times 100).
C25_WithinFivePercent ==
    [][(cron.pc \in {"save", "saveWhite"} /\ priceCurrentId' # priceCurrentId) =>
          LET latest == IF cron.pc = "save" THEN cron.latestBrownPrice
                        ELSE cron.latestWhitePrice
              old == StringToNumber(latest[1].price, 2)
              new == StringToNumber(pricesData'[priceCurrentId].price, 2)
          IN  /\ cron'.added = cron.added \cup {priceCurrentId}
              /\ pricesData'[priceCurrentId].eggType = latest[1].eggType
              /\ pricesData'[priceCurrentId].storeId = latest[1].storeId
              /\ 95 * old - 50 <= 100 * new
              /\ 100 * new <= 105 * old + 50]_vars

\* a run has appended a price below and a price above the one it read
C25_Witness ==
    /\ RunCompleted
    /\ \E up, down \in cron.added :
          \E p, q \in DOMAIN pricesData \ cron.added :
              /\ pricesData[p].storeId = pricesData[up].storeId
              /\ pricesData[p].eggType = pricesData[up].eggType
              /\ pricesData[p].recordedAt = 0
              /\ StringToNumber(pricesData[up].price, 2)
                    > StringToNumber(pricesData[p].price, 2)
              /\ pricesData[q].storeId = pricesData[down].storeId
              /\ pricesData[q].eggType = pricesData[down].eggType
              /\ pricesData[q].recordedAt = 0
              /\ StringToNumber(pricesData[down].price, 2)
                    < StringToNumber(pricesData[q].price, 2)


\* a decimal numeral of a positive amount with at most two decimal places
PositiveCents(price) ==
    LET dots == {i \in 1..Len(price) : price[i] = "."}
    IN  /\ Len(price) > 0
        /\ \A i \in 1..Len(price) : IsDigit(price[i]) \/ price[i] = "."
        /\ \/ dots = {}
           \/ \E d \in 2..Len(price) : dots = {d} /\ Len(price) - d \in 1..2
        /\ \E i \in 1..Len(price) : IsDigit(price[i]) /\ price[i] # "0"

\* C26: every price the repository stores after seeding, backfills and
\* scheduler runs is a strictly positive amount with at most two decimal
\* places, and so is every price that the later runs of the scheduler derive
\* from a stored one: the perturbation with rounding never reaches zero.
C26_PricesPositiveTwoDecimals ==
    /\ \A id \in DOMAIN pricesData : PositiveCents(pricesData[id].price)
    /\ call.op = "updatePricesForStore" => PositiveCents(call.returned)

\* seeded, backfilled and scheduled prices are stored, and the later runs
\* have brought a price down to ten cents, where the lowest variation leaves it
C26_Witness ==
    /\ cron.added # {}
    /\ \E id \in DOMAIN storesData : id > NumSampleStores
    /\ call.op = "updatePricesForStore"
    /\ call.arg = <<"0", ".", "1">>
    /\ call.returned = <<"0", ".", "1">>

\* a search is between the first store and the last price of its backfill
MidBackfill == \E s \in Slots : req[s].pc \in {"createStore", "createPrice"}

\* C27: with handlers that run to completion, whenever no search is in the
\* middle of a backfill every store has an observation of brown and one of
\* white; a scheduler run finds both latest prices of every store it goes to,
\* and no store of a search result has a null currentPrice.
C27_EveryStoreHasBothVariants ==
    /\ ~MidBackfill =>
          \A storeId \in DOMAIN storesData, eggType \in {"brown", "white"} :
              Observations(storeId, eggType) # {}
    /\ cron.pc = "save" =>
          cron.latestBrownPrice # undefined /\ cron.latestWhitePrice # undefined
    /\ \A i \in 1..Len(cron.seen) : cron.pc \in {"idle", "readBrown"} => HadBoth(cron.seen[i])
    /\ \A s \in Results :
          \A i \in 1..Len(req[s].response.stores) :
              req[s].response.stores[i].currentPrice # null

\* a run has gone to the seeded stores and to the stores of a backfill, and
\* the search that backfilled has its result
C27_Witness ==
    /\ RunCompleted
    /\ Len(cron.stores) > NumSampleStores
    /\ \A i \in 1..Len(cron.stores) : HadBoth(cron.stores[i])
    /\ \E s \in Results : req[s].backfilled /\ req[s].response.stores # <<>>

\* the stores of the repository that lie exactly at the coordinate the postal
\* code of search s resolves to
AtCenter(s) ==
    {id \in DOMAIN storesData :
        /\ StringToNumber(storesData[id].latitude, 4) = req[s].centerCoords.lat
        /\ StringToNumber(storesData[id].longitude, 4) = req[s].centerCoords.lng}

\* C28: the request that a client repeats after the redirect of a backfill
\* is valid, finds in its radius the synthetic store at the resolved
\* coordinate, and so goes from the filter to the result: it creates no store
\* and no price, is not redirected again, and is answered with status 200 and
\* an envelope that holds that store.
C28_RepeatedRequestFindsStore ==
    \A s \in Slots :
        (req[s].backfilled /\ req[s].route = "/api/prices") =>
            /\ req[s].pc \in {"getStores", "filter", "getStoresWithPrices", "responded"}
            /\ req[s].pc = "filter" =>
                  \E i \in 1..Len(req[s].allStores) :
                      /\ req[s].allStores[i].id \in AtCenter(s)
                      /\ StoresInRadius(<<req[s].allStores[i]>>, req[s].centerCoords,
                                        req[s].radius) # <<>>
            /\ req[s].pc = "getStoresWithPrices" =>
                  \E i \in 1..Len(req[s].storeIds) : req[s].storeIds[i] \in AtCenter(s)
            /\ req[s].pc = "responded" =>
                  /\ req[s].response.status = 200
                  /\ \E i \in 1..Len(req[s].response.stores) :
                        req[s].response.stores[i].id \in AtCenter(s)

\* the repeated request of a backfill has its envelope, with the store at
\* the resolved coordinate in it
C28_Witness ==
    \E s \in Results :
        /\ req[s].backfilled
        /\ storeCurrentId > NumSampleStores + 1
        /\ \E i \in 1..Len(req[s].response.stores) :
              /\ req[s].response.stores[i].id \in AtCenter(s)
              /\ req[s].response.stores[i].name = "Local Grocery"

\* the radius filter of search s, which is at line 47, yields no store
FilterYieldsNone(s) ==
    /\ req[s].pc = "filter"
    /\ StoresInRadius(req[s].allStores, req[s].centerCoords, req[s].radius) = <<>>

\* C29: a step of a search changes the stores, the prices or a counter only
\* in development and only when its radius filter has yielded no store: the
\* backfill starts at such a filter and nowhere else, and every other step of
\* a search (validation and its 400 answers, the reading of the stores, a
\* filter that finds a store, the views, the response) leaves all four
\* unchanged.
C29_SearchWritesOnlyInBackfill ==
    [][\A s \in Slots :
          req'[s] # req[s] =>
              /\ (storesData' # storesData \/ storeCurrentId' # storeCurrentId
                    \/ pricesData' # pricesData \/ priceCurrentId' # priceCurrentId)
                  => /\ NODE_ENV = "development"
                     /\ \/ FilterYieldsNone(s)
                        \/ req[s].pc \in {"createStore", "createPrice"}
              /\ (req'[s].pc = "createStore" /\ req[s].pc # "createStore")
                  => FilterYieldsNone(s) /\ NODE_ENV = "development"
              /\ req'[s].pc = "createPrice"
                  => req[s].pc \in {"createStore", "createPrice"}]_vars

\* a search that found a store has its result, and the repository is as it
\* was constructed
C29_Witness ==
    \E s \in Results :
        /\ ~req[s].backfilled
        /\ req[s].response.stores # <<>>
        /\ storeCurrentId = NumSampleStores + 1
        /\ priceCurrentId = SamplePrices + 1
        /\ DOMAIN pricesData = 1..SamplePrices

\* the ids of the observations of the store and variant in prices whose
\* recordedAt is the greatest
NewestIn(prices, storeId, eggType) ==
    LET obs == {id \in DOMAIN prices : /\ prices[id].storeId = storeId
                                       /\ prices[id].eggType = eggType}
    IN  {id \in obs : \A other \in obs : prices[other].recordedAt <= prices[id].recordedAt}

Newest(storeId, eggType) == NewestIn(pricesData, storeId, eggType)

\* C30: among the observations of a store and variant that share the
\* greatest recordedAt, getLatestPriceByStore returns the one with the lowest
\* id, that is the one created first; and a createPrice whose observation has
\* the recordedAt of the latest one leaves the latest one what it was: the
\* new observation joins the newest ones, with an id above that of the latest.
C30_FirstCreatedWinsTie ==
    /\ [](\A storeId \in DOMAIN storesData, eggType \in {"brown", "white"} :
            Newest(storeId, eggType) # {} =>
                /\ getLatestPriceByStore(storeId, eggType) # undefined
                /\ \A id \in Newest(storeId, eggType) :
                      getLatestPriceByStore(storeId, eggType)[1].id <= id)
    /\ [][\A storeId \in DOMAIN storesData, eggType \in {"brown", "white"} :
            (/\ priceCurrentId' = priceCurrentId + 1
             /\ pricesData'[priceCurrentId].storeId = storeId
             /\ pricesData'[priceCurrentId].eggType = eggType
             /\ getLatestPriceByStore(storeId, eggType) # undefined
             /\ pricesData'[priceCurrentId].recordedAt =
                   getLatestPriceByStore(storeId, eggType)[1].recordedAt)
            => /\ NewestIn(pricesData', storeId, eggType) =
                     Newest(storeId, eggType) \cup {priceCurrentId}
               /\ getLatestPriceByStore(storeId, eggType)[1].id < priceCurrentId]_vars

\* the scheduler has appended an observation whose recordedAt is that of the
\* seeded latest one, and the seeded one is still the latest
C30_Witness ==
    \E id \in cron.added :
        LET p == pricesData[id]
        IN  /\ Cardinality(Newest(p.storeId, p.eggType)) > 1
            /\ id \in Newest(p.storeId, p.eggType)
            /\ getLatestPriceByStore(p.storeId, p.eggType)[1].id <= SamplePrices

\* C21: the registration of the routes starts one run at once; afterwards
\* the runs started are that one and one for each period of 24 hours that
\* has made the interval due, never more than one per period; and once the
\* server has emitted close the interval is cleared and no step starts a run.
C21_RunAtStartThenDailyUntilClose ==
    /\ [](/\ ~timer.registered => cron.runs = 0
          /\ timer.registered => cron.runs = 1 + timer.fired
          /\ timer.fired <= timer.periods
          /\ (timer.armed /\ ~timer.due) => timer.fired = timer.periods
          /\ timer.closed => ~timer.armed /\ ~timer.due)
    /\ [][timer.closed => cron'.runs = cron.runs]_vars

\* a run at the registration, a run after the first period, the close, and
\* another period without a run
C21_Witness ==
    /\ timer.closed
    /\ timer.closedAt = 1
    /\ timer.periods = 2
    /\ timer.fired = 1
    /\ cron.runs = 2
    /\ cron.pc = "idle"


=============================================================================
